---- MODULE Spec2Model ----
(***************************************************************************)
(* Download orchestration of the music downloader: the QueueManager        *)
(* (server/queue/QueueManager.ts), the ActiveTasksRegistry                 *)
(* (server/activeTasks.ts), the retry loop execWithRetryFactory, the       *)
(* yt-dlp child supervision runYtDlp, the POST /api/playlist-download      *)
(* handler and the WebSocket / REST control messages.                      *)
(***************************************************************************)
EXTENDS Integers, Sequences, FiniteSets, TLC

(***************************************************************************)
(* Bounds of the model and constants of the program.                       *)
(***************************************************************************)
\* jobs SpecQ (every QueueManager method) may enqueue
MaxJobs == 1
\* jobs SpecSched (the QueueManager methods that schedule) may enqueue
MaxSched == 3
\* jobs SpecEnq (addToQueue alone) may enqueue
MaxEnq == 5
\* requests Spec (the whole server) may receive
MaxReq == 1
\* requests SpecLoad (the server while downloads run and report progress) may receive
MaxLoadReq == 4
\* jobs SpecLive (the QueueManager with the external work of its jobs) may enqueue
MaxLiveJobs == 4
\* requests SpecBurst (the server when every download succeeds) may receive
MaxBurst == 4
\* requests SpecRetry (the server when no observer sends a control message) may receive
MaxRetryReq == 1
\* requests SpecOpt (the optimized download service) may receive
MaxOptReq == 2
\* requests SpecFp (the service when every download succeeds) may receive
MaxFpReq == 2
\* requests SpecProg (the service with the progress lines of yt-dlp) may receive
MaxProgReq == 2
\* updates a request of SpecProg may have emitted when a stderr chunk still arrives
MaxEmits == 3
\* advances of the clock in SpecOpt
MaxTicks == 2
\* requests SpecCancel (the server when observers only send removeItem) may receive
MaxCancelReq == 4
\* items SpecMusic (the MusicQueueManager called directly) may add
MaxTracks == 3
\* items SpecReorder (the MusicQueueManager reordered with whole indices) may add
MaxMoveTracks == 4
\* items SpecCast (the MusicQueueManager with observers on /ws) may add
MaxCastTracks == 2
\* sockets that may connect to /ws
MaxObservers == 2
\* job ids SpecReg (the ActiveTasksRegistry called directly) may name
MaxRegIds == 3
\* progress percents are 0..MaxPct
MaxPct == 1
\* how far below zero the completeItem calls of SpecQ may take activeDownloads (the code has no floor)
MaxCompletes == 1
\* QueueManager.maxConcurrent
maxConcurrent == 3
\* execWithRetryFactory's default maxRetries
maxRetries == 3

Statuses == {"pending", "downloading", "completed", "failed", "paused"}
\* an update field or job field that is absent (undefined)
NoPct == -1
NoStatus == "none"
NoError == ""
CanceledByUser == "Canceled by user"
Pcts == 0..MaxPct
\* the formats a request may name; SpecEnq draws from all of them
Formats == {"mp3-320", "m4a", "mp4"}

VARIABLES
    queue,            \* QueueManager.queue: sequence of QueueItem
    activeDownloads,  \* QueueManager.activeDownloads
    nextId,           \* the id the next addToQueue hands out (uuidv4: always fresh)
    last,             \* history: the last QueueManager call, the item it named, that item's
                      \* status before the call, the job the call dispatched (0: none), the
                      \* events the call emitted
    tasks,            \* ActiveTasksRegistry.tasks: item id -> attempt whose child is held (0: no entry)
    pc,               \* per request: where the playlist-download handler stands
    attempt,          \* per request: execWithRetryFactory's loop variable
    child,            \* per request and attempt: the yt-dlp child process
    resError,         \* per request: the message of the 500 response ("" if none)
    dispatched,       \* history, per job: processQueue has dispatched it
    decs,             \* history, per job: activeDownloads-- executed for it
    cancelledAt,      \* history, per job: attempt at which activeTasks.cancel killed its child (0: never)
    delays,           \* history, per request: the backoff delays (ms) execWithRetryFactory awaited
    finalMsg,         \* history, per request: the message of the error its final attempt threw
    cache,            \* OptimizedDownloadService.cache: download id -> [path, timestamp]
    svcActiveDownloads, \* OptimizedDownloadService.activeDownloads: the download ids in flight
    files,            \* the artifacts that exist in the temporary directory
    now,              \* Date.now(), in milliseconds since the server started
    ticks,            \* the advances of the clock so far
    lastSweep,        \* history: the instant of the last cleanupCache call (-1: none yet)
    dl,               \* per /api/download request: where the handler stands, its options and
                      \* download id, its yt-dlp child, the cache entry it read, whether it
                      \* deleted an entry, its result and how it got it, its error, the
                      \* updates it passed to onProgress, executeOptimizedDownload's lastPercent
    returned,         \* history: what the last direct call of the registry or of the MusicQueueManager returned
    musicQueue,       \* MusicQueueManager.queue: sequence of MusicQueueItem
    currentIndex,     \* MusicQueueManager.currentIndex, a number (in halves, see Whole)
    isPlaying,        \* MusicQueueManager.isPlaying
    musicNextId,      \* the id the next MusicQueueManager.addToQueue hands out (uuidv4: always fresh)
    mlast,            \* history: the last MusicQueueManager call and its arguments
    sockets,          \* per observer: whether setupWebSocket's clients set holds its socket,
                      \* and the socket's readyState
    published,        \* history: the musicQueueStatus snapshots the last step emitted
    received          \* history, per observer: the messages the last step sent to it

qvars == <<queue, activeDownloads, nextId, last>>
svars == <<tasks, pc, attempt, child, resError, dispatched, decs, cancelledAt, delays, finalMsg>>
ovars == <<cache, svcActiveDownloads, files, now, ticks, lastSweep, dl>>
wvars == <<sockets, published, received>>
pvars == <<mlast, musicQueue, currentIndex, isPlaying, musicNextId, wvars, returned>>
vars == <<queue, activeDownloads, nextId, last, tasks, pc, attempt, child, resError,
          dispatched, decs, cancelledAt, delays, finalMsg,
          cache, svcActiveDownloads, files, now, ticks, lastSweep, dl,
          mlast, musicQueue, currentIndex, isPlaying, musicNextId,
          sockets, published, received, returned>>

(***************************************************************************)
(* QueueManager, as pure operators on m = [queue, activeDownloads].        *)
(***************************************************************************)
\* the least index of the set S of indices, 0 if S is empty (Array.find / findIndex
\* return the first match)
FirstOf(S) == IF S = {} THEN 0 ELSE CHOOSE i \in S : \A k \in S : i <= k

IndexOfId(q, itemId) == FirstOf({i \in 1..Len(q) : q[i].id = itemId})

HasItem(q, itemId) == IndexOfId(q, itemId) # 0

ItemOf(q, itemId) == q[IndexOfId(q, itemId)]

RemoveAt(q, i) == SubSeq(q, 1, i - 1) \o SubSeq(q, i + 1, Len(q))

getQueueStatus(m) ==
    [items |-> m.queue, totalItems |-> Len(m.queue), activeDownloads |-> m.activeDownloads]

\* processQueue without its concurrency check
processQueue_NoCap(m) ==
    LET i == FirstOf({k \in 1..Len(m.queue) : m.queue[k].status = "pending"})
    IN  IF i = 0 THEN m
        ELSE [queue |-> [m.queue EXCEPT ![i].status = "downloading"],
              activeDownloads |-> m.activeDownloads + 1]

\* processQueue taking the newest pending item instead of the oldest
processQueue_Lifo(m) ==
    LET P == {i \in 1..Len(m.queue) : m.queue[i].status = "pending"}
        i == CHOOSE k \in P : \A j \in P : j <= k
    IN  IF m.activeDownloads >= maxConcurrent THEN m
        ELSE IF P = {} THEN m
        ELSE [queue |-> [m.queue EXCEPT ![i].status = "downloading"],
              activeDownloads |-> m.activeDownloads + 1]

processQueue(m) ==
    LET i == FirstOf({k \in 1..Len(m.queue) : m.queue[k].status = "pending"})
    IN  IF m.activeDownloads >= maxConcurrent THEN m
        ELSE IF i = 0 THEN m
        ELSE [queue |-> [m.queue EXCEPT ![i].status = "downloading"],
              activeDownloads |-> m.activeDownloads + 1]

NewItem(id, format) ==
    [id |-> id, format |-> format, status |-> "pending", progress |-> NoPct,
     error |-> NoError, completedAt |-> 0]

\* addToQueue up to its trailing processQueue call
pushItem(m, id, format) == [m EXCEPT !.queue = Append(m.queue, NewItem(id, format))]

\* addToQueue without its trailing processQueue call
addToQueue_NoDispatch(m, id, format) == pushItem(m, id, format)

addToQueue(m, id, format) == processQueue(pushItem(m, id, format))

\* Object.assign(item, update): the fields present in update overwrite the item's
updateProgress(m, itemId, update) ==
    LET i == IndexOfId(m.queue, itemId)
        it == m.queue[i]
        merged == [it EXCEPT
            !.progress = IF update.progress # NoPct THEN update.progress ELSE @,
            !.status = IF update.status # NoStatus THEN update.status ELSE @]
    IN  IF i = 0 THEN m ELSE [m EXCEPT !.queue[i] = merged]

\* completeItem up to its trailing processQueue call (the item is known)
markComplete(m, itemId, success, error) ==
    LET i == IndexOfId(m.queue, itemId)
        it == m.queue[i]
        done == [it EXCEPT
            !.status = IF success THEN "completed" ELSE "failed",
            !.completedAt = 1,
            !.error = IF error # NoError THEN error ELSE @]
    IN  [queue |-> [m.queue EXCEPT ![i] = done],
         activeDownloads |-> m.activeDownloads - 1]

\* completeItem without its trailing processQueue call
completeItem_NoDispatch(m, itemId, success, error) ==
    IF HasItem(m.queue, itemId) THEN markComplete(m, itemId, success, error) ELSE m

completeItem(m, itemId, success, error) ==
    IF HasItem(m.queue, itemId)
    THEN processQueue(markComplete(m, itemId, success, error))
    ELSE m

\* pauseItem without its status check
pauseItem_Any(m, itemId) ==
    LET i == IndexOfId(m.queue, itemId)
    IN  IF i # 0 THEN [m EXCEPT !.queue[i].status = "paused"] ELSE m

pauseItem(m, itemId) ==
    LET i == IndexOfId(m.queue, itemId)
    IN  IF i # 0 /\ m.queue[i].status = "downloading"
        THEN [m EXCEPT !.queue[i].status = "paused"]
        ELSE m

\* resumeItem up to its trailing processQueue call (the item is known and paused)
markPending(m, itemId) == [m EXCEPT !.queue[IndexOfId(m.queue, itemId)].status = "pending"]

\* resumeItem without its trailing processQueue call
resumeItem_NoDispatch(m, itemId) ==
    LET i == IndexOfId(m.queue, itemId)
    IN  IF i # 0 /\ m.queue[i].status = "paused" THEN markPending(m, itemId) ELSE m

resumeItem(m, itemId) ==
    LET i == IndexOfId(m.queue, itemId)
    IN  IF i # 0 /\ m.queue[i].status = "paused"
        THEN processQueue(markPending(m, itemId))
        ELSE m

\* removeItem without its index !== -1 check: splice(-1, 1) removes the last item
removeItem_NoCheck(m, itemId) ==
    LET i == IndexOfId(m.queue, itemId)
    IN  [m EXCEPT !.queue = RemoveAt(m.queue, IF i # 0 THEN i ELSE Len(m.queue))]

removeItem(m, itemId) ==
    LET i == IndexOfId(m.queue, itemId)
    IN  IF i # 0 THEN [m EXCEPT !.queue = RemoveAt(m.queue, i)] ELSE m

clearCompleted(m) ==
    LET Keep(it) == it.status # "completed"
    IN  [m EXCEPT !.queue = SelectSeq(m.queue, Keep)]

M == [queue |-> queue, activeDownloads |-> activeDownloads]

SetM(m) == queue' = m.queue /\ activeDownloads' = m.activeDownloads

\* the id of the item a processQueue call on m turns from pending to downloading, 0 if none
Dispatches(m) ==
    LET n == processQueue(m)
        Changed(i) == n.queue[i].status # m.queue[i].status
    IN  IF \E i \in 1..Len(m.queue) : Changed(i)
        THEN m.queue[CHOOSE i \in 1..Len(m.queue) : Changed(i)].id
        ELSE 0

\* the job each method's trailing processQueue call dispatches, 0 if none
AddDispatches(m, id, format) == Dispatches(pushItem(m, id, format))

CompleteDispatches(m, itemId, success, error) ==
    IF HasItem(m.queue, itemId) THEN Dispatches(markComplete(m, itemId, success, error)) ELSE 0

ResumeDispatches(m, itemId) ==
    IF HasItem(m.queue, itemId) /\ ItemOf(m.queue, itemId).status = "paused"
    THEN Dispatches(markPending(m, itemId))
    ELSE 0

\* history of a call
\* the status of item itemId, "absent" if the queue holds no such item
StatusOf(q, itemId) == IF HasItem(q, itemId) THEN ItemOf(q, itemId).status ELSE "absent"

\* the events processQueue emits when it dispatches a job
DispatchEvents(promoted) ==
    IF promoted # 0 THEN <<"queueUpdated", "startDownload">> ELSE <<>>

\* the events a QueueManager method emits, in order, when the item it names had status
\* was and its trailing processQueue call dispatched promoted
Emits(op, was, promoted) ==
    CASE op = "addToQueue" -> <<"queueUpdated">> \o DispatchEvents(promoted)
      [] op = "updateProgress" ->
            IF was # "absent" THEN <<"progressUpdate", "queueUpdated">> ELSE <<>>
      [] op = "completeItem" ->
            IF was # "absent" THEN <<"queueUpdated">> \o DispatchEvents(promoted) ELSE <<>>
      [] op = "pauseItem" -> IF was = "downloading" THEN <<"queueUpdated">> ELSE <<>>
      [] op = "resumeItem" ->
            IF was = "paused" THEN <<"queueUpdated">> \o DispatchEvents(promoted) ELSE <<>>
      [] op = "removeItem" -> IF was # "absent" THEN <<"queueUpdated">> ELSE <<>>
      [] op = "clearCompleted" -> <<"queueUpdated">>
      [] OTHER -> <<>>

Called(op, id, promoted) ==
    last' = [op |-> op, id |-> id, was |-> StatusOf(queue, id), promoted |-> promoted,
             emitted |-> Emits(op, StatusOf(queue, id), promoted)]

(***************************************************************************)
(* ActiveTasksRegistry, as pure operators on the map tasks.                *)
(***************************************************************************)
register(t, id, k) == [t EXCEPT ![id] = k]

unregister(t, id) == [t EXCEPT ![id] = 0]

\* a ChildProcess.kill() that signals nothing
kill_Noop(state) == state

\* ChildProcess.kill() on a child in the given state: a running child is signalled and is
\* killed from then on, until its 'close'; a child that was signalled or has exited stays
kill(state) == IF state = "running" THEN "killed" ELSE state

\* cancel(id) keeping the handle it found
cancel_KeepHandle(t, id) ==
    IF t[id] # 0
    THEN [found |-> TRUE, tasks |-> t, killed |-> t[id]]
    ELSE [found |-> FALSE, tasks |-> t, killed |-> 0]

\* cancel(id): [found, tasks, killed]: killed is the attempt whose child got proc.kill()
cancel(t, id) ==
    IF t[id] # 0
    THEN [found |-> TRUE, tasks |-> [t EXCEPT ![id] = 0], killed |-> t[id]]
    ELSE [found |-> FALSE, tasks |-> t, killed |-> 0]

(***************************************************************************)
(* OptimizedDownloadService (server/services/optimizedDownload.ts) and the *)
(* POST /api/download handler that calls it. Strings that reach generateId *)
(* are tuples of characters.                                               *)
(***************************************************************************)
\* OptimizedDownloadService.CACHE_TTL, in milliseconds
CACHE_TTL == 24 * 60 * 60 * 1000

\* the UTF-8 code of each character of the strings below (all of them ASCII)
Ord ==
    ("-" :> 45) @@ ("." :> 46) @@ ("/" :> 47) @@ ("0" :> 48) @@ ("2" :> 50) @@ ("3" :> 51) @@
    ("4" :> 52) @@ (":" :> 58) @@ ("=" :> 61) @@ ("?" :> 63) @@ ("a" :> 97) @@ ("b" :> 98) @@
    ("c" :> 99) @@ ("d" :> 100) @@ ("e" :> 101) @@ ("g" :> 103) @@ ("h" :> 104) @@ ("i" :> 105) @@
    ("m" :> 109) @@ ("o" :> 111) @@ ("p" :> 112) @@ ("s" :> 115) @@ ("t" :> 116) @@ ("u" :> 117) @@
    ("v" :> 118) @@ ("w" :> 119) @@ ("y" :> 121)

\* the base64 alphabet, and '=' (index 64) for padding
B64Alphabet ==
    <<
       "A", "B", "C", "D", "E", "F", "G", "H", "I", "J", "K", "L", "M",
       "N", "O", "P", "Q", "R", "S", "T", "U", "V", "W", "X", "Y", "Z",
       "a", "b", "c", "d", "e", "f", "g", "h", "i", "j", "k", "l", "m",
       "n", "o", "p", "q", "r", "s", "t", "u", "v", "w", "x", "y", "z",
       "0", "1", "2", "3", "4", "5", "6", "7", "8", "9", "+", "/", "=" >>

\* Buffer.from(key): the bytes of key
BytesOf(key) == [i \in 1..Len(key) |-> Ord[key[i]]]

\* the indices into the base64 alphabet that encode a sequence of bytes
RECURSIVE SextetsOf(_)
SextetsOf(bytes) ==
    IF Len(bytes) = 0 THEN <<>>
    ELSE IF Len(bytes) = 1
    THEN <<bytes[1] \div 4, (bytes[1] % 4) * 16, 64, 64>>
    ELSE IF Len(bytes) = 2
    THEN <<bytes[1] \div 4, (bytes[1] % 4) * 16 + bytes[2] \div 16, (bytes[2] % 16) * 4, 64>>
    ELSE <<bytes[1] \div 4,
           (bytes[1] % 4) * 16 + bytes[2] \div 16,
           (bytes[2] % 16) * 4 + bytes[3] \div 64,
           bytes[3] % 64>> \o SextetsOf(SubSeq(bytes, 4, Len(bytes)))

\* buffer.toString('base64')
toBase64(bytes) ==
    LET sextets == SextetsOf(bytes)
    IN  [i \in 1..Len(sextets) |-> B64Alphabet[sextets[i] + 1]]

\* s.slice(0, n)
slice0(s, n) == SubSeq(s, 1, IF Len(s) < n THEN Len(s) ELSE n)

Dash == <<"-">>
Audio == <<"a", "u", "d", "i", "o">>
Video == <<"v", "i", "d", "e", "o">>

generateId(url, format, quality, audioFormat, audioQuality, videoQualityFormat) ==
    LET key == IF format = Audio
               THEN url \o Dash \o format \o Dash \o audioFormat \o Dash \o audioQuality
               ELSE url \o Dash \o format \o Dash \o
                    (IF videoQualityFormat # <<>> THEN videoQualityFormat ELSE quality)
    IN  slice0(toBase64(BytesOf(key)), 16)

\* the options the /api/download handler passes for a request: url, type, and the audio
\* format and quality of QUALITY_OPTIONS[format]; quality is always 'high', and
\* videoQualityFormat is '' when format names no entry of VIDEO_QUALITY_OPTIONS
UrlA == <<"h", "t", "t", "p", "s", ":", "/", "/", "y", "o", "u", "t", "u", ".", "b", "e", "/", "a">>
UrlB == <<"h", "t", "t", "p", "s", ":", "/", "/", "y", "o", "u", "t", "u", ".", "b", "e", "/", "b">>
UrlW ==
    <<"h", "t", "t", "p", "s", ":", "/", "/", "w", "w", "w", ".", "y", "o", "u", "t", "u", "b", "e", ".", "c", "o", "m", "/", "w", "a", "t", "c", "h", "?", "v", "=", "a">>
High == <<"h", "i", "g", "h">>

OptionsOf(url, type, audioFormat, audioQuality) ==
    [url |-> url, format |-> type, quality |-> High, audioFormat |-> audioFormat,
     audioQuality |-> audioQuality, videoQualityFormat |-> <<>>]

Mp3_320(url) == OptionsOf(url, Audio, <<"m", "p", "3">>, <<"3", "2", "0">>)
M4a(url) == OptionsOf(url, Audio, <<"m", "4", "a">>, <<"0">>)
VideoOf(url) == OptionsOf(url, Video, <<"m", "p", "3">>, <<"3", "2", "0">>)

\* the requests SpecOpt draws from: two videos on two hosts
HostOptions == {Mp3_320(UrlA), Mp3_320(UrlW)}
\* the requests SpecFp draws from: they differ in url, in type or in audio format and quality
AllOptions == {Mp3_320(UrlA), Mp3_320(UrlB), M4a(UrlA), VideoOf(UrlA), Mp3_320(UrlW)}

NoOptions == OptionsOf(<<>>, <<>>, <<>>, <<>>)

IdOf(o) ==
    generateId(o.url, o.format, o.quality, o.audioFormat, o.audioQuality, o.videoQualityFormat)

\* the artifact the download of request r writes (its name starts with ytdl-opt-${Date.now()}-)
PathOf(r) == r
NoPath == 0
\* no cache entry seen
NoEntry == [path |-> NoPath, timestamp |-> -1]
DuplicateError == "Download already in progress for this item"

\* Map.has, Map.delete and Map.set on the cache
cacheHas(c, f) == f \in DOMAIN c

cacheDelete(c, f) == [g \in DOMAIN c \ {f} |-> c[g]]

cacheSet(c, f, e) == [g \in DOMAIN c \cup {f} |-> IF g = f THEN e ELSE c[g]]

\* a cache check that takes every entry for fresh
isFresh_Always(entry, t) == TRUE

\* the TTL test of the cache check of optimizedDownload
isFresh(entry, t) == t - entry.timestamp < CACHE_TTL

\* the TTL test of cleanupCache
isExpired(entry, t) == t - entry.timestamp > CACHE_TTL

\* optimizedDownload without its cache check
lookup_Skip(c, f, t) == [to |-> "start", cache |-> c, cached |-> NoEntry]

\* the cache check of optimizedDownload up to its first await: no entry, an entry past
\* TTL (deleted), or a fresh entry whose file is to be looked for
lookup(c, f, t) ==
    IF cacheHas(c, f)
    THEN IF isFresh(c[f], t)
         THEN [to |-> "fileExists", cache |-> c, cached |-> c[f]]
         ELSE [to |-> "start", cache |-> cacheDelete(c, f), cached |-> c[f]]
    ELSE [to |-> "start", cache |-> c, cached |-> NoEntry]

\* optimizedDownload caching whatever way executeOptimizedDownload ended
putResult_Always(c, f, ok, path, t) == cacheSet(c, f, [path |-> path, timestamp |-> t])

\* the cache after executeOptimizedDownload settled: set only when it resolved
putResult(c, f, ok, path, t) ==
    IF ok THEN cacheSet(c, f, [path |-> path, timestamp |-> t]) ELSE c

\* cleanupCache: the entries kept, and the files unlinked
cleanupCache(c, t) == [g \in {f \in DOMAIN c : ~isExpired(c[f], t)} |-> c[g]]

cleanupUnlinks(c, t) == {c[f].path : f \in {g \in DOMAIN c : isExpired(c[g], t)}}

OptReqs == DOMAIN dl

\* the updates optimizedDownload and executeOptimizedDownload pass to onProgress
Update(percent, stage) == [percent |-> percent, stage |-> stage]
Fetching == Update(5, "fetching")
Processing == Update(96, "processing")
Finalizing == Update(98, "finalizing")
Complete == Update(100, "complete")

\* the percents the [download] lines of yt-dlp's stderr may carry, and the stderr chunks: a
\* chunk matches progressRegex with percent pct (NoPct: no match) and matches
\* postProcessRegex or not
LinePcts == {2, 50, 100}
Chunks == [pct : LinePcts \cup {NoPct}, post : BOOLEAN] \ {[pct |-> NoPct, post |-> FALSE]}

\* Math.min(95, parseFloat(progressMatch[1]))
capped(p) == IF p > 95 THEN 95 ELSE p

\* the stderr 'data' handler on d = [emitted, lastPercent, ...] for chunk c
onStderr(d, c) ==
    LET percent == capped(c.pct)
        parsed == c.pct # NoPct /\ percent > d.lastPercent
        e1 == IF parsed THEN Append(d.emitted, Update(percent, "fetching")) ELSE d.emitted
    IN  [d EXCEPT !.lastPercent = IF parsed THEN percent ELSE @,
                  !.emitted = IF c.post THEN Append(e1, Processing) ELSE e1]

IdleDownload ==
    [pc |-> "idle", opts |-> NoOptions, id |-> <<>>, child |-> "none", cached |-> NoEntry,
     evicted |-> FALSE, result |-> NoPath, via |-> "none", error |-> "",
     emitted |-> <<>>, lastPercent |-> 0]

(***************************************************************************)
(* MusicQueueManager (server/queue/MusicQueueManager.ts), as pure          *)
(* operators on m = [queue, currentIndex, isPlaying] that give the state   *)
(* after the call and what the call returned (ret). reorderQueue takes its *)
(* indices from the request as numbers that need not be whole: the schema  *)
(* of PUT /api/music-queue/reorder is z.number().min(0) and the observer   *)
(* message reorderMusicQueue is not validated. The numbers of this section *)
(* are multiples of one half, and the number n/2 is written n.             *)
(***************************************************************************)
\* the whole number i
Whole(i) == 2 * i
\* x is a whole number
IsWhole(x) == x % 2 = 0
\* ToIntegerOrInfinity(x) for x >= 0, as Array.prototype.splice takes its start
Trunc(x) == x \div 2
\* queue[x] is an item: x is a whole number within the array
Holds(q, x) == IsWhole(x) /\ x >= 0 /\ x < Whole(Len(q))
\* the position in the sequence q of the array element queue[x]
Pos(x) == Trunc(x) + 1

\* what a call returned when it returned nothing (or no call was made yet); when it
\* returned null instead of an item (items are returned as their ids, 1 and up); when it
\* threw a TypeError
NoReturn == "none"
Null == 0
Throws == -1

Result(q, cur, playing, ret) ==
    [queue |-> q, currentIndex |-> cur, isPlaying |-> playing, ret |-> ret]

Same(m, ret) == Result(m.queue, m.currentIndex, m.isPlaying, ret)

\* queue.splice(start, 0, item) for a whole start
InsertAt(q, start, item) == SubSeq(q, 1, start) \o <<item>> \o SubSeq(q, start + 1, Len(q))

\* queue[x].isCurrentlyPlaying = b, where queue[x] is an item
setFlag(q, x, b) == [q EXCEPT ![Pos(x)].isCurrentlyPlaying = b]

\* MusicQueueManager.addToQueue
musicAddToQueue(m, id) ==
    LET q1 == Append(m.queue, [id |-> id, isCurrentlyPlaying |-> FALSE])
    IN  IF Len(q1) = 1
        THEN Result(setFlag(q1, Whole(0), TRUE), Whole(0), m.isPlaying, id)
        ELSE Result(q1, m.currentIndex, m.isPlaying, id)

\* removeFromQueue without its currentIndex-- for an item before the cursor
removeFromQueue_NoRepair(m, itemId) ==
    LET i == IndexOfId(m.queue, itemId)
        index == Whole(i - 1)
        q1 == RemoveAt(m.queue, i)
        prev == IF index - Whole(1) > 0 THEN index - Whole(1) ELSE 0
    IN  IF i = 0 THEN Same(m, FALSE)
        ELSE IF index = m.currentIndex
        THEN IF index < Whole(Len(m.queue) - 1)
             THEN Result(setFlag(q1, m.currentIndex, TRUE), m.currentIndex, m.isPlaying, TRUE)
             ELSE IF Len(q1) = 0
             THEN Result(q1, Whole(-1), m.isPlaying, TRUE)
             ELSE Result(setFlag(q1, prev, TRUE), prev, m.isPlaying, TRUE)
        ELSE Result(q1, m.currentIndex, m.isPlaying, TRUE)

\* removeFromQueue without its return on findIndex's -1: the index -1 goes on to the
\* cursor repair and to splice(-1, 1), which takes out the last item
removeFromQueue_NoFind(m, itemId) ==
    IF HasItem(m.queue, itemId) THEN removeFromQueue_NoRepair(m, itemId)
    ELSE IF m.currentIndex = Whole(-1)
    THEN Result(<<>>, Whole(-1), m.isPlaying, TRUE)
    ELSE Result(SubSeq(m.queue, 1, Len(m.queue) - 1),
                IF Whole(-1) < m.currentIndex THEN m.currentIndex - Whole(1)
                ELSE m.currentIndex,
                m.isPlaying, TRUE)

removeFromQueue(m, itemId) ==
    LET i == IndexOfId(m.queue, itemId)
        index == Whole(i - 1)
        q1 == RemoveAt(m.queue, i)
        prev == IF index - Whole(1) > 0 THEN index - Whole(1) ELSE 0
    IN  IF i = 0 THEN Same(m, FALSE)
        ELSE IF index = m.currentIndex
        THEN IF index < Whole(Len(m.queue) - 1)
             THEN Result(setFlag(q1, m.currentIndex, TRUE), m.currentIndex, m.isPlaying, TRUE)
             ELSE IF Len(q1) = 0
             THEN Result(q1, Whole(-1), m.isPlaying, TRUE)
             ELSE Result(setFlag(q1, prev, TRUE), prev, m.isPlaying, TRUE)
        ELSE Result(q1, IF index < m.currentIndex THEN m.currentIndex - Whole(1)
                        ELSE m.currentIndex,
                    m.isPlaying, TRUE)

\* reorderQueue whose cursor follows only the moved item, without the shift for a move
\* that crosses the cursor
reorderQueue_NoShift(m, fromIndex, toIndex) ==
    LET len == Whole(Len(m.queue))
        item == m.queue[Pos(fromIndex)]
        q1 == InsertAt(RemoveAt(m.queue, Pos(fromIndex)), Trunc(toIndex), item)
        cur == m.currentIndex
    IN  IF fromIndex < 0 \/ fromIndex >= len \/ toIndex < 0 \/ toIndex >= len
        THEN Same(m, FALSE)
        ELSE Result(q1, IF cur = fromIndex THEN toIndex ELSE cur, m.isPlaying, TRUE)

reorderQueue(m, fromIndex, toIndex) ==
    LET len == Whole(Len(m.queue))
        item == m.queue[Pos(fromIndex)]
        q1 == InsertAt(RemoveAt(m.queue, Pos(fromIndex)), Trunc(toIndex), item)
        cur == m.currentIndex
    IN  IF fromIndex < 0 \/ fromIndex >= len \/ toIndex < 0 \/ toIndex >= len
        THEN Same(m, FALSE)
        ELSE Result(q1,
                    IF cur = fromIndex THEN toIndex
                    ELSE IF fromIndex < cur /\ toIndex >= cur THEN cur - Whole(1)
                    ELSE IF fromIndex > cur /\ toIndex <= cur THEN cur + Whole(1)
                    ELSE cur,
                    m.isPlaying, TRUE)

\* the end of playNext, playPrevious and playItemAtIndex: the queue is q, the cursor has
\* been set to cur; mark queue[cur] and return it, a TypeError if it is undefined
markCurrent(m, q, cur) ==
    IF Holds(q, cur)
    THEN Result(setFlag(q, cur, TRUE), cur, m.isPlaying, q[Pos(cur)].id)
    ELSE Result(q, cur, m.isPlaying, Throws)

\* the start of playNext, playPrevious and playItemAtIndex: the queue once the item at the
\* cursor is unmarked
cleared(m) ==
    IF Holds(m.queue, m.currentIndex) THEN setFlag(m.queue, m.currentIndex, FALSE) ELSE m.queue

\* queue[currentIndex] is undefined although currentIndex is within the array's bounds
clearThrows(m) ==
    /\ m.currentIndex >= 0
    /\ m.currentIndex < Whole(Len(m.queue))
    /\ ~IsWhole(m.currentIndex)

playNext(m) ==
    IF Len(m.queue) = 0 THEN Same(m, Null)
    ELSE IF clearThrows(m) THEN Same(m, Throws)
    ELSE markCurrent(m, cleared(m),
                     IF m.currentIndex < Whole(Len(m.queue) - 1)
                     THEN m.currentIndex + Whole(1)
                     ELSE Whole(0))

playPrevious(m) ==
    IF Len(m.queue) = 0 THEN Same(m, Null)
    ELSE IF clearThrows(m) THEN Same(m, Throws)
    ELSE markCurrent(m, cleared(m),
                     IF m.currentIndex > 0
                     THEN m.currentIndex - Whole(1)
                     ELSE Whole(Len(m.queue) - 1))

playItemAtIndex(m, index) ==
    IF index < 0 \/ index >= Whole(Len(m.queue)) THEN Same(m, Null)
    ELSE IF clearThrows(m) THEN Same(m, Throws)
    ELSE markCurrent(m, cleared(m), index)

playItem(m, itemId) ==
    LET i == IndexOfId(m.queue, itemId)
    IN  IF i = 0 THEN Same(m, Null) ELSE playItemAtIndex(m, Whole(i - 1))

\* setPlayingStatus that also takes the mark off the item at the cursor when playback stops
setPlayingStatus_Unmark(m, playing) ==
    Result(IF playing THEN m.queue ELSE cleared(m), m.currentIndex, playing, NoReturn)

setPlayingStatus(m, playing) == Result(m.queue, m.currentIndex, playing, NoReturn)

clearQueue(m) == Result(<<>>, Whole(-1), FALSE, NoReturn)

\* MusicQueueManager.getQueueStatus
musicGetQueueStatus(m) ==
    [items |-> m.queue, currentIndex |-> m.currentIndex, isPlaying |-> m.isPlaying,
     totalItems |-> Len(m.queue)]

\* the queueUpdated events a call of method op emitted, given its result r: every method
\* calls emitStatusUpdate as its last statement but one, so a call that returned early
\* (false, null) or threw has emitted nothing
emitStatusUpdate(op, r) ==
    LET snapshot == <<musicGetQueueStatus(r)>>
    IN  CASE op \in {"addToQueue", "setPlayingStatus", "clearQueue"} -> snapshot
          [] op \in {"removeFromQueue", "reorderQueue"} -> IF r.ret THEN snapshot ELSE <<>>
          [] op \in {"playNext", "playPrevious", "playItem"} ->
                IF r.ret \in {Null, Throws} THEN <<>> ELSE snapshot

\* the observers: the sockets that may connect to /ws
Observers == 1..MaxObservers

\* broadcast of each of msgs: every socket of the clients set whose readyState is OPEN is
\* sent it (a socket that is closing stays in the set until its close event)
broadcast(socks, msgs) == [w \in Observers |-> IF socks[w] = "open" THEN msgs ELSE <<>>]

MQ == [queue |-> musicQueue, currentIndex |-> currentIndex, isPlaying |-> isPlaying]

\* a call made: the state it leaves, what it returned, the history of the call, and the
\* snapshots the musicQueueManager.on('queueUpdated') listener broadcast
MusicCall(op, id, r) ==
    /\ musicQueue' = r.queue
    /\ currentIndex' = r.currentIndex
    /\ isPlaying' = r.isPlaying
    /\ returned' = r.ret
    /\ mlast' = [op |-> op, id |-> id]
    /\ published' = emitStatusUpdate(op, r)
    /\ received' = broadcast(sockets, emitStatusUpdate(op, r))
    /\ UNCHANGED sockets

\* the numbers a reorder request may carry for the first n array positions: -1, -1/2, 0,
\* 1/2, ..., n
Numbers(n) == Whole(-1)..Whole(n)

MAddToQueue(n) ==
    /\ musicNextId <= n
    /\ MusicCall("addToQueue", musicNextId, musicAddToQueue(MQ, musicNextId))
    /\ musicNextId' = musicNextId + 1

MRemoveFromQueue(id) ==
    /\ MusicCall("removeFromQueue", id, removeFromQueue(MQ, id))
    /\ UNCHANGED musicNextId

MReorderQueue(fromIndex, toIndex) ==
    /\ MusicCall("reorderQueue", 0, reorderQueue(MQ, fromIndex, toIndex))
    /\ UNCHANGED musicNextId

MPlayNext ==
    /\ MusicCall("playNext", 0, playNext(MQ))
    /\ UNCHANGED musicNextId

MPlayPrevious ==
    /\ MusicCall("playPrevious", 0, playPrevious(MQ))
    /\ UNCHANGED musicNextId

MPlayItem(id) ==
    /\ MusicCall("playItem", id, playItem(MQ, id))
    /\ UNCHANGED musicNextId

\* the history records the argument as 1 for true and 0 for false
MSetPlayingStatus(playing) ==
    /\ MusicCall("setPlayingStatus", IF playing THEN 1 ELSE 0, setPlayingStatus(MQ, playing))
    /\ UNCHANGED musicNextId

MClearQueue ==
    /\ MusicCall("clearQueue", 0, clearQueue(MQ))
    /\ UNCHANGED musicNextId

\* wss.on('connection'): the socket joins the clients set and is sent the current status
WsConnection(w) ==
    /\ sockets[w] = "none"
    /\ sockets' = [sockets EXCEPT ![w] = "open"]
    /\ published' = <<>>
    /\ received' = [v \in Observers |-> IF v = w THEN <<musicGetQueueStatus(MQ)>> ELSE <<>>]
    /\ UNCHANGED <<mlast, musicQueue, currentIndex, isPlaying, musicNextId, returned>>

\* the connection starts to close: readyState leaves OPEN, the close event is yet to come
WsClosing(w) ==
    /\ sockets[w] = "open"
    /\ sockets' = [sockets EXCEPT ![w] = "closing"]
    /\ published' = <<>>
    /\ received' = [v \in Observers |-> <<>>]
    /\ UNCHANGED <<mlast, musicQueue, currentIndex, isPlaying, musicNextId, returned>>

\* ws.on('close'): clients.delete(ws)
WsClose(w) ==
    /\ sockets[w] = "closing"
    /\ sockets' = [sockets EXCEPT ![w] = "none"]
    /\ published' = <<>>
    /\ received' = [v \in Observers |-> <<>>]
    /\ UNCHANGED <<mlast, musicQueue, currentIndex, isPlaying, musicNextId, returned>>

MusicInit ==
    /\ sockets = [w \in Observers |-> "none"]
    /\ published = <<>>
    /\ received = [w \in Observers |-> <<>>]
    /\ returned = NoReturn
    /\ musicQueue = <<>>
    /\ currentIndex = Whole(-1)
    /\ isPlaying = FALSE
    /\ musicNextId = 1
    /\ mlast = [op |-> "init", id |-> 0]

OptInitFor(R) ==
    /\ MusicInit
    /\ cache = <<>>
    /\ svcActiveDownloads = {}
    /\ files = {}
    /\ now = 0
    /\ ticks = 0
    /\ lastSweep = -1
    /\ dl = [r \in R |-> IdleDownload]

\* the duplicate check of optimizedDownload and, past it, the spawn of yt-dlp by
\* executeOptimizedDownload, for the request whose record is d
\* the duplicate check made inside the try block, so that the finally block also runs for
\* the request that is refused
Begin_DuplicateInTry(r, d) ==
    IF d.id \in svcActiveDownloads
    THEN /\ dl' = [dl EXCEPT ![r] = [d EXCEPT !.pc = "failed", !.error = DuplicateError]]
         /\ svcActiveDownloads' = svcActiveDownloads \ {d.id}
    ELSE /\ dl' = [dl EXCEPT ![r] = [d EXCEPT !.pc = "running", !.child = "running",
                                              !.emitted = Append(@, Fetching)]]
         /\ svcActiveDownloads' = svcActiveDownloads \cup {d.id}

Begin(r, d) ==
    IF d.id \in svcActiveDownloads
    THEN /\ dl' = [dl EXCEPT ![r] = [d EXCEPT !.pc = "failed", !.error = DuplicateError]]
         /\ UNCHANGED svcActiveDownloads
    ELSE /\ dl' = [dl EXCEPT ![r] = [d EXCEPT !.pc = "running", !.child = "running",
                                              !.emitted = Append(@, Fetching)]]
         /\ svcActiveDownloads' = svcActiveDownloads \cup {d.id}

\* POST /api/download with options o: optimizedDownload up to its first await
OptRequest(r, o) ==
    LET f == IdOf(o)
        l == lookup(cache, f, now)
        d == [dl[r] EXCEPT !.opts = o, !.id = f, !.cached = l.cached,
                           !.evicted = (l.cache # cache)]
    IN  /\ dl[r].pc = "idle"
        /\ \A q \in OptReqs : q < r => dl[q].pc # "idle"
        /\ cache' = l.cache
        /\ IF l.to = "fileExists"
           THEN /\ dl' = [dl EXCEPT ![r] = [d EXCEPT !.pc = "fileExists"]]
                /\ UNCHANGED svcActiveDownloads
           ELSE Begin(r, d)
        /\ UNCHANGED <<files, now, ticks, lastSweep>>

\* await this.fileExists(cached.path) returns: report complete and go on to fsp.stat, or
\* delete the entry and fall through to the download
OptFileExists(r) ==
    /\ dl[r].pc = "fileExists"
    /\ IF dl[r].cached.path \in files
       THEN /\ dl' = [dl EXCEPT ![r].pc = "stat", ![r].emitted = Append(@, Complete)]
            /\ UNCHANGED <<cache, svcActiveDownloads>>
       ELSE /\ cache' = cacheDelete(cache, dl[r].id)
            /\ Begin(r, [dl[r] EXCEPT !.evicted = TRUE])
    /\ UNCHANGED <<files, now, ticks, lastSweep>>

\* await fsp.stat(cached.path) returns: the cached file is the result, or stat throws
OptStat(r) ==
    /\ dl[r].pc = "stat"
    /\ IF dl[r].cached.path \in files
       THEN dl' = [dl EXCEPT ![r].pc = "streaming", ![r].via = "cache",
                             ![r].result = dl[r].cached.path]
       ELSE dl' = [dl EXCEPT ![r].pc = "failed", ![r].error = "ENOENT"]
    /\ UNCHANGED <<cache, svcActiveDownloads, files, now, ticks, lastSweep>>

\* what follows the settling of executeOptimizedDownload: the cache put and the complete
\* update on success, and the finally block; marks are the updates of the handler that
\* settled it
Settle(r, ok, error, marks) ==
    /\ cache' = putResult(cache, dl[r].id, ok, PathOf(r), now)
    /\ svcActiveDownloads' = svcActiveDownloads \ {dl[r].id}
    /\ dl' = [dl EXCEPT ![r].pc = IF ok THEN "streaming" ELSE "failed",
                        ![r].child = IF error = "Download timeout" THEN kill(@) ELSE "closed",
                        ![r].via = IF ok THEN "download" ELSE @,
                        ![r].result = IF ok THEN PathOf(r) ELSE @,
                        ![r].error = error,
                        ![r].emitted = IF ok THEN Append(@ \o marks, Complete) ELSE @ \o marks]

\* a chunk on the child's stderr: the 'data' handler of executeOptimizedDownload
OptStderr(r, c) ==
    /\ dl[r].child \in {"running", "killed"}
    /\ Len(dl[r].emitted) < MaxEmits
    /\ dl' = [dl EXCEPT ![r] = onStderr(@, c)]
    /\ UNCHANGED <<cache, svcActiveDownloads, files, now, ticks, lastSweep>>

\* child 'close' with code 0: the finalizing update, then findOutputFile finds the artifact,
\* or finds none
OptCloseOk(r) ==
    /\ dl[r].pc = "running"
    /\ dl[r].child = "running"
    /\ \/ /\ files' = files \cup {PathOf(r)}
          /\ Settle(r, TRUE, "", <<Finalizing>>)
       \/ /\ UNCHANGED files
          /\ Settle(r, FALSE, "Downloaded file not found", <<Finalizing>>)
    /\ UNCHANGED <<now, ticks, lastSweep>>

\* child 'close' with a non-zero code or after the SIGTERM of the timeout
OptCloseFail(r) ==
    /\ dl[r].child \in {"running", "killed"}
    /\ IF dl[r].pc = "running"
       THEN Settle(r, FALSE, "Download failed with exit code", <<>>)
       ELSE /\ dl' = [dl EXCEPT ![r].child = "closed"]
            /\ UNCHANGED <<cache, svcActiveDownloads>>
    /\ UNCHANGED <<files, now, ticks, lastSweep>>

\* child 'error': the process could not be spawned
OptChildError(r) ==
    /\ dl[r].pc = "running"
    /\ dl[r].child = "running"
    /\ Settle(r, FALSE, "spawn error", <<>>)
    /\ UNCHANGED <<files, now, ticks, lastSweep>>

\* the 5 minute timer of executeOptimizedDownload: SIGTERM to the child, reject
OptTimeout(r) ==
    /\ dl[r].pc = "running"
    /\ dl[r].child = "running"
    /\ Settle(r, FALSE, "Download timeout", <<>>)
    /\ UNCHANGED <<files, now, ticks, lastSweep>>

\* the response that streamed the result closes: the handler unlinks result.filePath
OptResClose(r) ==
    /\ dl[r].pc = "streaming"
    /\ dl' = [dl EXCEPT ![r].pc = "done"]
    /\ files' = files \ {dl[r].result}
    /\ UNCHANGED <<cache, svcActiveDownloads, now, ticks, lastSweep>>

\* cleanupCache, called every hour by setInterval and, in production, after a response
\* closed
Sweep ==
    /\ lastSweep # now
    /\ cache' = cleanupCache(cache, now)
    /\ files' = files \ cleanupUnlinks(cache, now)
    /\ lastSweep' = now
    /\ UNCHANGED <<svcActiveDownloads, now, ticks, dl>>

\* Date.now() advances by d milliseconds
Tick(d) ==
    /\ ticks < MaxTicks
    /\ now' = now + d
    /\ ticks' = ticks + 1
    /\ UNCHANGED <<cache, svcActiveDownloads, files, lastSweep, dl>>

\* the advances of the clock: one millisecond, and one millisecond short of the TTL
Steps == {1, CACHE_TTL - 1}

(***************************************************************************)
(* execWithRetryFactory: classification of the final attempt's message.    *)
(* A message is modelled by the set of the substrings it contains that     *)
(* the classification looks for.                                           *)
(***************************************************************************)
Marks == {"timed out", "unavailable", "http"}
Messages == SUBSET Marks
TimedOutMessage == {"timed out"}
\* no error caught yet
NoMessage == {"none"}

\* the classification testing 'http' before 'timed out' and 'unavailable'
classify_HttpFirst(msg) ==
    IF "http" \in msg THEN "Network error"
    ELSE IF "timed out" \in msg THEN "Download timed out"
    ELSE IF "unavailable" \in msg THEN "Video is unavailable"
    ELSE "Download failed"

classify(msg) ==
    IF "timed out" \in msg THEN "Download timed out"
    ELSE IF "unavailable" \in msg THEN "Video is unavailable"
    ELSE IF "http" \in msg THEN "Network error"
    ELSE "Download failed"

\* the delay awaited after the failure of a non-final attempt, in milliseconds
\* a delay that grows by one second per attempt
backoffDelay_Linear(k) == k * 1000

backoffDelay(k) == 2 ^ k * 1000

(***************************************************************************)
(* Spec: the server. Requests to POST /api/playlist-download, the events   *)
(* of their yt-dlp children, and the control messages of observers.        *)
(***************************************************************************)
Attempts == 1..maxRetries
ReqFormat == "mp3-320"
\* the requests of the specification at hand
Reqs == DOMAIN pc

InitFor(R) ==
    /\ queue = <<>>
    /\ activeDownloads = 0
    /\ nextId = 1
    /\ last = [op |-> "init", id |-> 0, was |-> "absent", promoted |-> 0, emitted |-> <<>>]
    /\ tasks = [id \in R |-> 0]
    /\ pc = [r \in R |-> "idle"]
    /\ attempt = [r \in R |-> 0]
    /\ child = [r \in R |-> [k \in Attempts |-> "none"]]
    /\ resError = [r \in R |-> ""]
    /\ dispatched = [id \in R |-> FALSE]
    /\ decs = [id \in R |-> 0]
    /\ cancelledAt = [id \in R |-> 0]
    /\ delays = [r \in R |-> <<>>]
    /\ finalMsg = [r \in R |-> NoMessage]

Init == InitFor(1..MaxReq) /\ OptInitFor({})

\* history: the job the call of this step dispatched, and the decrement completeItem made
NoteDispatch ==
    dispatched' = IF last'.promoted # 0
                  THEN [dispatched EXCEPT ![last'.promoted] = TRUE]
                  ELSE dispatched

NoteDecrement(id) ==
    decs' = IF HasItem(queue, id) THEN [decs EXCEPT ![id] = @ + 1] ELSE decs

\* runYtDlp's synchronous part: spawn the child of attempt k and register it
Spawn(r, k) ==
    /\ child' = [child EXCEPT ![r][k] = "running"]
    /\ tasks' = register(tasks, r, k)
    /\ attempt' = [attempt EXCEPT ![r] = k]
    /\ pc' = [pc EXCEPT ![r] = "running"]

\* the handler up to its first suspension: addToQueue, then attempt 1 of execWithRetryFactory
Request(r) ==
    /\ pc[r] = "idle"
    /\ nextId = r
    /\ SetM(addToQueue(M, r, ReqFormat))
    /\ nextId' = nextId + 1
    /\ Called("addToQueue", r, AddDispatches(M, r, ReqFormat))
    /\ NoteDispatch
    /\ Spawn(r, 1)
    /\ UNCHANGED <<resError, decs, cancelledAt, delays, finalMsg>>

\* a progress line on the child's stderr: onProgress -> queueManager.updateProgress
ChildProgress(r) ==
    /\ pc[r] = "running"
    /\ child[r][attempt[r]] = "running"
    /\ \E p \in Pcts :
        SetM(updateProgress(M, r, [progress |-> p, status |-> "downloading"]))
    /\ Called("updateProgress", r, 0)
    /\ UNCHANGED <<nextId, tasks, pc, attempt, child, resError, dispatched, decs, cancelledAt,
                   delays, finalMsg>>

\* the catch block of execWithRetryFactory for the pending attempt of r: on the final
\* attempt throw the classified error, otherwise await the backoff delay
Rejected(r, msg) ==
    IF attempt[r] = maxRetries
    THEN /\ pc' = [pc EXCEPT ![r] = "failed"]
         /\ resError' = [resError EXCEPT ![r] = classify(msg)]
         /\ finalMsg' = [finalMsg EXCEPT ![r] = msg]
         /\ UNCHANGED delays
    ELSE /\ pc' = [pc EXCEPT ![r] = "backoff"]
         /\ delays' = [delays EXCEPT ![r] = Append(@, backoffDelay(attempt[r]))]
         /\ UNCHANGED <<resError, finalMsg>>

\* the promise of attempt k of r is not settled yet
Pending(r, k) == pc[r] = "running" /\ attempt[r] = k

\* child 'close' with exit code 0, before any kill: unregister, resolve; the handler
\* then finds the files and streams the archive, or finds none and answers 500
ChildCloseOk(r) ==
    LET k == attempt[r] IN
    /\ Pending(r, k)
    /\ child[r][k] = "running"
    /\ child' = [child EXCEPT ![r][k] = "closed"]
    /\ tasks' = unregister(tasks, r)
    /\ \/ /\ pc' = [pc EXCEPT ![r] = "streaming"]
          /\ UNCHANGED resError
       \/ /\ pc' = [pc EXCEPT ![r] = "failed"]
          /\ resError' = [resError EXCEPT ![r] = "No files downloaded"]
    /\ UNCHANGED <<queue, activeDownloads, nextId, last, attempt, dispatched, decs, cancelledAt,
                   delays, finalMsg>>

\* child 'close' with a non-zero code or after a signal: unregister, and reject if the
\* promise of that attempt is still pending
ChildCloseFail(r, k) ==
    /\ child[r][k] \in {"running", "killed"}
    /\ child' = [child EXCEPT ![r][k] = "closed"]
    /\ tasks' = unregister(tasks, r)
    /\ IF Pending(r, k)
       THEN \E msg \in Messages : Rejected(r, msg)
       ELSE UNCHANGED <<pc, resError, delays, finalMsg>>
    /\ UNCHANGED <<queue, activeDownloads, nextId, last, attempt, dispatched, decs, cancelledAt>>

\* child 'error' (the process could not be spawned or signalled): unregister, reject
ChildError(r) ==
    LET k == attempt[r] IN
    /\ Pending(r, k)
    /\ child[r][k] = "running"
    /\ child' = [child EXCEPT ![r][k] = "closed"]
    /\ tasks' = unregister(tasks, r)
    /\ \E msg \in Messages : Rejected(r, msg)
    /\ UNCHANGED <<queue, activeDownloads, nextId, last, attempt, dispatched, decs, cancelledAt>>

\* runYtDlp's timer: kill the child, reject with 'yt-dlp timed out'; the registry keeps
\* the handle until the child's 'close'
Timeout(r) ==
    LET k == attempt[r] IN
    /\ Pending(r, k)
    /\ child[r][k] \in {"running", "killed"}
    /\ child' = [child EXCEPT ![r][k] = kill(@)]
    /\ Rejected(r, TimedOutMessage)
    /\ UNCHANGED <<queue, activeDownloads, nextId, last, tasks, attempt, dispatched, decs,
                   cancelledAt>>

\* the backoff delay of execWithRetryFactory has passed: the next attempt starts
BackoffDone(r) ==
    /\ pc[r] = "backoff"
    /\ Spawn(r, attempt[r] + 1)
    /\ UNCHANGED <<queue, activeDownloads, nextId, last, resError, dispatched, decs, cancelledAt,
                   delays, finalMsg>>

\* the response of a request that streamed its archive closes: completeItem(itemId, true)
ResClose(r) ==
    /\ pc[r] = "streaming"
    /\ SetM(completeItem(M, r, TRUE, NoError))
    /\ Called("completeItem", r, CompleteDispatches(M, r, TRUE, NoError))
    /\ pc' = [pc EXCEPT ![r] = "done"]
    /\ NoteDecrement(r)
    /\ NoteDispatch
    /\ UNCHANGED <<nextId, tasks, attempt, child, resError, cancelledAt, delays, finalMsg>>

\* observer message removeItem: cancel the registered child and fail the job, or remove it
WsRemoveItem(id) ==
    LET c == cancel(tasks, id) IN
    /\ tasks' = c.tasks
    /\ IF c.found
       THEN /\ child' = [child EXCEPT ![id][c.killed] = kill(@)]
            /\ SetM(completeItem(M, id, FALSE, CanceledByUser))
            /\ Called("completeItem", id, CompleteDispatches(M, id, FALSE, CanceledByUser))
            /\ cancelledAt' = [cancelledAt EXCEPT ![id] = c.killed]
            /\ NoteDecrement(id)
            /\ NoteDispatch
       ELSE /\ SetM(removeItem(M, id))
            /\ Called("removeItem", id, 0)
            /\ UNCHANGED <<child, cancelledAt, decs, dispatched>>
    /\ UNCHANGED <<nextId, pc, attempt, resError, delays, finalMsg>>

\* observer message pauseItem and POST /api/queue/:itemId/pause
PauseItem(id) ==
    /\ SetM(pauseItem(M, id))
    /\ Called("pauseItem", id, 0)
    /\ UNCHANGED <<nextId, tasks, pc, attempt, child, resError, dispatched, decs, cancelledAt,
                   delays, finalMsg>>

\* observer message resumeItem and POST /api/queue/:itemId/resume
ResumeItem(id) ==
    /\ SetM(resumeItem(M, id))
    /\ Called("resumeItem", id, ResumeDispatches(M, id))
    /\ NoteDispatch
    /\ UNCHANGED <<nextId, tasks, pc, attempt, child, resError, decs, cancelledAt, delays,
                   finalMsg>>

\* DELETE /api/queue/:itemId
RestRemoveItem(id) ==
    /\ SetM(removeItem(M, id))
    /\ Called("removeItem", id, 0)
    /\ UNCHANGED <<nextId, tasks, pc, attempt, child, resError, dispatched, decs, cancelledAt,
                   delays, finalMsg>>

\* observer message clearCompleted and POST /api/queue/clear-completed
ClearCompleted ==
    /\ SetM(clearCompleted(M))
    /\ Called("clearCompleted", 0, 0)
    /\ UNCHANGED <<nextId, tasks, pc, attempt, child, resError, dispatched, decs, cancelledAt,
                   delays, finalMsg>>

Next ==
    \/ \E r \in Reqs : Request(r) /\ UNCHANGED <<ovars, pvars>>
    \/ \E r \in Reqs : ChildProgress(r) /\ UNCHANGED <<ovars, pvars>>
    \/ \E r \in Reqs : ChildCloseOk(r) /\ UNCHANGED <<ovars, pvars>>
    \/ \E r \in Reqs, k \in Attempts : ChildCloseFail(r, k) /\ UNCHANGED <<ovars, pvars>>
    \/ \E r \in Reqs : ChildError(r) /\ UNCHANGED <<ovars, pvars>>
    \/ \E r \in Reqs : Timeout(r) /\ UNCHANGED <<ovars, pvars>>
    \/ \E r \in Reqs : BackoffDone(r) /\ UNCHANGED <<ovars, pvars>>
    \/ \E r \in Reqs : ResClose(r) /\ UNCHANGED <<ovars, pvars>>
    \/ \E id \in Reqs : WsRemoveItem(id) /\ UNCHANGED <<ovars, pvars>>
    \/ \E id \in Reqs : PauseItem(id) /\ UNCHANGED <<ovars, pvars>>
    \/ \E id \in Reqs : ResumeItem(id) /\ UNCHANGED <<ovars, pvars>>
    \/ \E id \in Reqs : RestRemoveItem(id) /\ UNCHANGED <<ovars, pvars>>
    \/ ClearCompleted /\ UNCHANGED <<ovars, pvars>>

Spec == Init /\ [][Next]_vars

(***************************************************************************)
(* SpecBurst: the server when every yt-dlp child exits with code 0 and no  *)
(* observer sends a control message: requests, exits and response closes.  *)
(***************************************************************************)
BurstInit == InitFor(1..MaxBurst) /\ OptInitFor({})

BurstNext ==
    \/ \E r \in Reqs : Request(r) /\ UNCHANGED <<ovars, pvars>>
    \/ \E r \in Reqs : ChildCloseOk(r) /\ UNCHANGED <<ovars, pvars>>
    \/ \E r \in Reqs : ResClose(r) /\ UNCHANGED <<ovars, pvars>>

SpecBurst == BurstInit /\ [][BurstNext]_vars

(***************************************************************************)
(* SpecLoad: the server while requests arrive and their yt-dlp children    *)
(* print progress lines; no child exits and no observer sends a message.   *)
(***************************************************************************)
LoadInit == InitFor(1..MaxLoadReq) /\ OptInitFor({})

LoadNext ==
    \/ \E r \in Reqs : Request(r) /\ UNCHANGED <<ovars, pvars>>
    \/ \E r \in Reqs : ChildProgress(r) /\ UNCHANGED <<ovars, pvars>>

SpecLoad == LoadInit /\ [][LoadNext]_vars

(***************************************************************************)
(* SpecRetry: the server when no observer sends a control message: every   *)
(* request runs execWithRetryFactory around runYtDlp to its end.           *)
(***************************************************************************)
RetryInit == InitFor(1..MaxRetryReq) /\ OptInitFor({})

RetryNext ==
    \/ \E r \in Reqs : Request(r) /\ UNCHANGED <<ovars, pvars>>
    \/ \E r \in Reqs : ChildProgress(r) /\ UNCHANGED <<ovars, pvars>>
    \/ \E r \in Reqs : ChildCloseOk(r) /\ UNCHANGED <<ovars, pvars>>
    \/ \E r \in Reqs, k \in Attempts : ChildCloseFail(r, k) /\ UNCHANGED <<ovars, pvars>>
    \/ \E r \in Reqs : ChildError(r) /\ UNCHANGED <<ovars, pvars>>
    \/ \E r \in Reqs : Timeout(r) /\ UNCHANGED <<ovars, pvars>>
    \/ \E r \in Reqs : BackoffDone(r) /\ UNCHANGED <<ovars, pvars>>
    \/ \E r \in Reqs : ResClose(r) /\ UNCHANGED <<ovars, pvars>>

SpecRetry == RetryInit /\ [][RetryNext]_vars

(***************************************************************************)
(* SpecCancel: the server when observers send removeItem and nothing else  *)
(* and no yt-dlp child exits with code 0, up to the end of each request's  *)
(* first attempt.                                                          *)
(***************************************************************************)
CancelInit == InitFor(1..MaxCancelReq) /\ OptInitFor({})

CancelNext ==
    \/ \E r \in Reqs : Request(r) /\ UNCHANGED <<ovars, pvars>>
    \/ \E r \in Reqs, k \in Attempts : ChildCloseFail(r, k) /\ UNCHANGED <<ovars, pvars>>
    \/ \E id \in Reqs : WsRemoveItem(id) /\ UNCHANGED <<ovars, pvars>>

SpecCancel == CancelInit /\ [][CancelNext]_vars

(***************************************************************************)
(* The QueueManager called directly: one action per public method, for     *)
(* every item id among the first n (and every format in F).                *)
(***************************************************************************)
QAddToQueue(n, F) ==
    \E f \in F :
        /\ nextId <= n
        /\ SetM(addToQueue(M, nextId, f))
        /\ nextId' = nextId + 1
        /\ Called("addToQueue", nextId, AddDispatches(M, nextId, f))

QUpdateProgress(n) ==
    \E id \in 1..n, p \in Pcts \cup {NoPct}, s \in {NoStatus, "downloading"} :
        /\ SetM(updateProgress(M, id, [progress |-> p, status |-> s]))
        /\ Called("updateProgress", id, 0)
        /\ UNCHANGED nextId

QCompleteItem(n) ==
    \E id \in 1..n, ok \in BOOLEAN, e \in {NoError, CanceledByUser} :
        /\ ok => e = NoError
        /\ activeDownloads > -MaxCompletes
        /\ SetM(completeItem(M, id, ok, e))
        /\ Called("completeItem", id, CompleteDispatches(M, id, ok, e))
        /\ UNCHANGED nextId

QPauseItem(n) ==
    \E id \in 1..n :
        /\ SetM(pauseItem(M, id))
        /\ Called("pauseItem", id, 0)
        /\ UNCHANGED nextId

QResumeItem(n) ==
    \E id \in 1..n :
        /\ SetM(resumeItem(M, id))
        /\ Called("resumeItem", id, ResumeDispatches(M, id))
        /\ UNCHANGED nextId

QRemoveItem(n) ==
    \E id \in 1..n :
        /\ SetM(removeItem(M, id))
        /\ Called("removeItem", id, 0)
        /\ UNCHANGED nextId

QClearCompleted ==
    /\ SetM(clearCompleted(M))
    /\ Called("clearCompleted", 0, 0)
    /\ UNCHANGED nextId

QInit == InitFor({}) /\ OptInitFor({})

(***************************************************************************)
(* SpecReg: the ActiveTasksRegistry called directly: register, unregister  *)
(* and cancel for every job id among the first MaxRegIds and the handles   *)
(* of the attempts.                                                        *)
(***************************************************************************)
RegRegister(id, k) ==
    /\ tasks' = register(tasks, id, k)
    /\ Called("register", id, 0)
    /\ returned' = NoReturn

RegUnregister(id) ==
    /\ tasks' = unregister(tasks, id)
    /\ Called("unregister", id, 0)
    /\ returned' = NoReturn

RegCancel(id) ==
    /\ tasks' = cancel(tasks, id).tasks
    /\ Called("cancel", id, 0)
    /\ returned' = cancel(tasks, id).found

RegInit == InitFor(1..MaxRegIds) /\ OptInitFor({})

RegUnchanged ==
    UNCHANGED <<queue, activeDownloads, nextId, pc, attempt, child, resError, dispatched, decs,
                cancelledAt, delays, finalMsg, ovars, musicQueue, currentIndex, isPlaying,
                musicNextId, mlast, wvars>>

RegNext ==
    \/ \E id \in Reqs, k \in Attempts : RegRegister(id, k) /\ RegUnchanged
    \/ \E id \in Reqs : RegUnregister(id) /\ RegUnchanged
    \/ \E id \in Reqs : RegCancel(id) /\ RegUnchanged

SpecReg == RegInit /\ [][RegNext]_vars

(***************************************************************************)
(* SpecQ: any sequence of calls of the QueueManager's public methods.      *)
(***************************************************************************)
QNext ==
    \/ QAddToQueue(MaxJobs, {ReqFormat}) /\ UNCHANGED <<svars, ovars, pvars>>
    \/ QUpdateProgress(MaxJobs) /\ UNCHANGED <<svars, ovars, pvars>>
    \/ QCompleteItem(MaxJobs) /\ UNCHANGED <<svars, ovars, pvars>>
    \/ QPauseItem(MaxJobs) /\ UNCHANGED <<svars, ovars, pvars>>
    \/ QResumeItem(MaxJobs) /\ UNCHANGED <<svars, ovars, pvars>>
    \/ QRemoveItem(MaxJobs) /\ UNCHANGED <<svars, ovars, pvars>>
    \/ QClearCompleted /\ UNCHANGED <<svars, ovars, pvars>>

SpecQ == QInit /\ [][QNext]_vars

(***************************************************************************)
(* SpecSched: any sequence of calls of the methods that move jobs between  *)
(* statuses and slots (every public method but updateProgress).            *)
(***************************************************************************)
SchedNext ==
    \/ QAddToQueue(MaxSched, {ReqFormat}) /\ UNCHANGED <<svars, ovars, pvars>>
    \/ QCompleteItem(MaxSched) /\ UNCHANGED <<svars, ovars, pvars>>
    \/ QPauseItem(MaxSched) /\ UNCHANGED <<svars, ovars, pvars>>
    \/ QResumeItem(MaxSched) /\ UNCHANGED <<svars, ovars, pvars>>
    \/ QRemoveItem(MaxSched) /\ UNCHANGED <<svars, ovars, pvars>>
    \/ QClearCompleted /\ UNCHANGED <<svars, ovars, pvars>>

SpecSched == QInit /\ [][SchedNext]_vars

(***************************************************************************)
(* SpecLive: the QueueManager and the external work of its jobs. The work  *)
(* of a job starts when processQueue first dispatches the job; it ends     *)
(* once, and its end is reported with completeItem, whatever has happened  *)
(* to the job in the queue meanwhile. Jobs are added, paused, resumed and  *)
(* removed at any time.                                                    *)
(***************************************************************************)
LiveRest == UNCHANGED <<tasks, attempt, child, resError, cancelledAt, delays, finalMsg>>

\* the external work of job id ends and is reported to the queue
WorkEnds(id) ==
    /\ dispatched[id]
    /\ pc[id] = "idle"
    /\ SetM(completeItem(M, id, TRUE, NoError))
    /\ Called("completeItem", id, CompleteDispatches(M, id, TRUE, NoError))
    /\ pc' = [pc EXCEPT ![id] = "done"]
    /\ NoteDecrement(id)
    /\ NoteDispatch
    /\ LiveRest
    /\ UNCHANGED <<nextId, ovars, pvars>>

LiveInit == InitFor(1..MaxLiveJobs) /\ OptInitFor({})

LiveNext ==
    \/ QAddToQueue(MaxLiveJobs, {ReqFormat}) /\ NoteDispatch /\ LiveRest
            /\ UNCHANGED <<pc, decs, ovars, pvars>>
    \/ QPauseItem(MaxLiveJobs) /\ LiveRest /\ UNCHANGED <<pc, decs, dispatched, ovars, pvars>>
    \/ QResumeItem(MaxLiveJobs) /\ NoteDispatch /\ LiveRest
            /\ UNCHANGED <<pc, decs, ovars, pvars>>
    \/ QRemoveItem(MaxLiveJobs) /\ LiveRest /\ UNCHANGED <<pc, decs, dispatched, ovars, pvars>>
    \/ \E id \in Reqs : WorkEnds(id)

SpecLive == LiveInit /\ [][LiveNext]_vars

(***************************************************************************)
(* SpecEnq: addToQueue alone, from the empty queue.                        *)
(***************************************************************************)
EnqNext == QAddToQueue(MaxEnq, Formats) /\ UNCHANGED <<svars, ovars, pvars>>

SpecEnq == QInit /\ [][EnqNext]_vars

(***************************************************************************)
(* SpecOpt: requests to POST /api/download for videos on two hosts, the    *)
(* events of their yt-dlp children, the clock and the cache sweep.         *)
(***************************************************************************)
OptInit == InitFor({}) /\ OptInitFor(1..MaxOptReq)

OptNext ==
    \/ \E r \in OptReqs, o \in HostOptions : OptRequest(r, o) /\ UNCHANGED <<qvars, svars, pvars>>
    \/ \E r \in OptReqs : OptFileExists(r) /\ UNCHANGED <<qvars, svars, pvars>>
    \/ \E r \in OptReqs : OptStat(r) /\ UNCHANGED <<qvars, svars, pvars>>
    \/ \E r \in OptReqs : OptCloseOk(r) /\ UNCHANGED <<qvars, svars, pvars>>
    \/ \E r \in OptReqs : OptCloseFail(r) /\ UNCHANGED <<qvars, svars, pvars>>
    \/ \E r \in OptReqs : OptChildError(r) /\ UNCHANGED <<qvars, svars, pvars>>
    \/ \E r \in OptReqs : OptTimeout(r) /\ UNCHANGED <<qvars, svars, pvars>>
    \/ \E r \in OptReqs : OptResClose(r) /\ UNCHANGED <<qvars, svars, pvars>>
    \/ Sweep /\ UNCHANGED <<qvars, svars, pvars>>
    \/ \E d \in Steps : Tick(d) /\ UNCHANGED <<qvars, svars, pvars>>

SpecOpt == OptInit /\ [][OptNext]_vars

(***************************************************************************)
(* SpecFp: requests to POST /api/download that differ in url, type or      *)
(* audio format, with downloads that succeed.                              *)
(***************************************************************************)
FpInit == InitFor({}) /\ OptInitFor(1..MaxFpReq)

FpNext ==
    \/ \E r \in OptReqs, o \in AllOptions : OptRequest(r, o) /\ UNCHANGED <<qvars, svars, pvars>>
    \/ \E r \in OptReqs : OptFileExists(r) /\ UNCHANGED <<qvars, svars, pvars>>
    \/ \E r \in OptReqs : OptStat(r) /\ UNCHANGED <<qvars, svars, pvars>>
    \/ \E r \in OptReqs : OptCloseOk(r) /\ UNCHANGED <<qvars, svars, pvars>>
    \/ \E r \in OptReqs : OptResClose(r) /\ UNCHANGED <<qvars, svars, pvars>>

SpecFp == FpInit /\ [][FpNext]_vars

(***************************************************************************)
(* SpecMusic: any sequence of calls of the MusicQueueManager's methods as  *)
(* the REST routes and the observer messages make them.                    *)
(***************************************************************************)
MusicNext ==
    \/ MAddToQueue(MaxTracks) /\ UNCHANGED <<qvars, svars, ovars>>
    \/ \E id \in 1..MaxTracks : MRemoveFromQueue(id) /\ UNCHANGED <<qvars, svars, ovars>>
    \/ \E f, t \in Numbers(MaxTracks) : MReorderQueue(f, t) /\ UNCHANGED <<qvars, svars, ovars>>
    \/ MPlayNext /\ UNCHANGED <<qvars, svars, ovars>>
    \/ MPlayPrevious /\ UNCHANGED <<qvars, svars, ovars>>
    \/ \E id \in 1..MaxTracks : MPlayItem(id) /\ UNCHANGED <<qvars, svars, ovars>>
    \/ \E b \in BOOLEAN : MSetPlayingStatus(b) /\ UNCHANGED <<qvars, svars, ovars>>
    \/ MClearQueue /\ UNCHANGED <<qvars, svars, ovars>>

SpecMusic == QInit /\ [][MusicNext]_vars

(***************************************************************************)
(* SpecReorder: items added to the playback queue, the cursor advanced,    *)
(* and reorder requests that carry whole numbers from 0 to one past the    *)
(* last index the queue can reach.                                         *)
(***************************************************************************)
ReorderNext ==
    \/ MAddToQueue(MaxMoveTracks) /\ UNCHANGED <<qvars, svars, ovars>>
    \/ \E f, t \in 0..MaxMoveTracks :
            MReorderQueue(Whole(f), Whole(t)) /\ UNCHANGED <<qvars, svars, ovars>>
    \/ MPlayNext /\ UNCHANGED <<qvars, svars, ovars>>

SpecReorder == QInit /\ [][ReorderNext]_vars

(***************************************************************************)
(* SpecCast: observers connect to /ws and leave while items are added to   *)
(* the playback queue, reordered by requests carrying any numbers, and the *)
(* cursor is moved.                                                        *)
(***************************************************************************)
CastNext ==
    \/ MAddToQueue(MaxCastTracks) /\ UNCHANGED <<qvars, svars, ovars>>
    \/ \E f, t \in Numbers(MaxCastTracks) :
            MReorderQueue(f, t) /\ UNCHANGED <<qvars, svars, ovars>>
    \/ MPlayNext /\ UNCHANGED <<qvars, svars, ovars>>
    \/ MPlayPrevious /\ UNCHANGED <<qvars, svars, ovars>>
    \/ \E b \in BOOLEAN : MSetPlayingStatus(b) /\ UNCHANGED <<qvars, svars, ovars>>
    \/ \E w \in Observers : WsConnection(w) /\ UNCHANGED <<qvars, svars, ovars>>
    \/ \E w \in Observers : WsClosing(w) /\ UNCHANGED <<qvars, svars, ovars>>
    \/ \E w \in Observers : WsClose(w) /\ UNCHANGED <<qvars, svars, ovars>>

SpecCast == QInit /\ [][CastNext]_vars

(***************************************************************************)
(* SpecProg: requests to POST /api/download for one video with an          *)
(* onProgress callback, the stderr chunks and the exits of their yt-dlp    *)
(* children, while the clock stands still.                                 *)
(***************************************************************************)
ProgInit == InitFor({}) /\ OptInitFor(1..MaxProgReq)

ProgNext ==
    \/ \E r \in OptReqs : OptRequest(r, Mp3_320(UrlA)) /\ UNCHANGED <<qvars, svars, pvars>>
    \/ \E r \in OptReqs : OptFileExists(r) /\ UNCHANGED <<qvars, svars, pvars>>
    \/ \E r \in OptReqs : OptStat(r) /\ UNCHANGED <<qvars, svars, pvars>>
    \/ \E r \in OptReqs, c \in Chunks : OptStderr(r, c) /\ UNCHANGED <<qvars, svars, pvars>>
    \/ \E r \in OptReqs : OptCloseOk(r) /\ UNCHANGED <<qvars, svars, pvars>>
    \/ \E r \in OptReqs : OptCloseFail(r) /\ UNCHANGED <<qvars, svars, pvars>>
    \/ \E r \in OptReqs : OptChildError(r) /\ UNCHANGED <<qvars, svars, pvars>>
    \/ \E r \in OptReqs : OptTimeout(r) /\ UNCHANGED <<qvars, svars, pvars>>
    \/ \E r \in OptReqs : OptResClose(r) /\ UNCHANGED <<qvars, svars, pvars>>

SpecProg == ProgInit /\ [][ProgNext]_vars

(***************************************************************************)
(* SpecEither: the server on one of its two download endpoints, which      *)
(* share no state: POST /api/playlist-download as in SpecRetry, or POST    *)
(* /api/download as in SpecOpt while the clock stands still.               *)
(***************************************************************************)
EitherInit == RetryInit \/ OptInit

EitherNext ==
    \/ RetryNext
    \/ \E r \in OptReqs, o \in HostOptions : OptRequest(r, o) /\ UNCHANGED <<qvars, svars, pvars>>
    \/ \E r \in OptReqs : OptFileExists(r) /\ UNCHANGED <<qvars, svars, pvars>>
    \/ \E r \in OptReqs : OptStat(r) /\ UNCHANGED <<qvars, svars, pvars>>
    \/ \E r \in OptReqs : OptCloseOk(r) /\ UNCHANGED <<qvars, svars, pvars>>
    \/ \E r \in OptReqs : OptCloseFail(r) /\ UNCHANGED <<qvars, svars, pvars>>
    \/ \E r \in OptReqs : OptChildError(r) /\ UNCHANGED <<qvars, svars, pvars>>
    \/ \E r \in OptReqs : OptTimeout(r) /\ UNCHANGED <<qvars, svars, pvars>>
    \/ \E r \in OptReqs : OptResClose(r) /\ UNCHANGED <<qvars, svars, pvars>>

SpecEither == EitherInit /\ [][EitherNext]_vars

(***************************************************************************)
(* Properties.                                                             *)
(***************************************************************************)
PendingIdx(q) == {i \in 1..Len(q) : q[i].status = "pending"}
DownloadingIdx(q) == {i \in 1..Len(q) : q[i].status = "downloading"}
Terminal == {"completed", "failed"}
RunningReqs == {r \in Reqs : \E k \in Attempts : child[r][k] = "running"}

\* C1: in every state reached by any sequence of addToQueue, updateProgress,
\* completeItem, pauseItem, resumeItem, removeItem and clearCompleted calls,
\* activeDownloads is at most maxConcurrent.
C1_ActiveAtMostMax == activeDownloads <= maxConcurrent

\* C1 witness: a call that ends in processQueue found every slot taken and left a job pending
C1_Witness ==
    /\ last.op \in {"addToQueue", "resumeItem"}
    /\ last.promoted = 0
    /\ activeDownloads = maxConcurrent
    /\ StatusOf(queue, last.id) = "pending"

\* C2: a yt-dlp child runs for a job only once processQueue has dispatched that job, and
\* at most maxConcurrent children of download-queue jobs run at the same time.
C2_ExternalWorkOnlyWhenDispatched ==
    /\ \A r \in RunningReqs : dispatched[r]
    /\ Cardinality(RunningReqs) <= maxConcurrent

\* C3: activeDownloads is decremented at most once for a job that was dispatched, and
\* never for a job that was not.
C3_DecrementedOncePerDispatchedJob ==
    \A id \in Reqs : decs[id] <= (IF dispatched[id] THEN 1 ELSE 0)

\* C4: a completeItem call for a job whose status is not downloading leaves the job's
\* status and completedAt and activeDownloads as they were.
C4_CompleteOnlyFromDownloading ==
    [][(/\ last'.op = "completeItem"
        /\ HasItem(queue, last'.id)
        /\ StatusOf(queue, last'.id) # "downloading")
       => /\ HasItem(queue', last'.id)
          /\ ItemOf(queue', last'.id).status = ItemOf(queue, last'.id).status
          /\ ItemOf(queue', last'.id).completedAt = ItemOf(queue, last'.id).completedAt
          /\ activeDownloads' = activeDownloads]_vars

\* C5: after n addToQueue calls on the empty queue and nothing else, the first
\* min(n, maxConcurrent) jobs enqueued are downloading, the others are pending, and
\* activeDownloads is min(n, maxConcurrent).
C5_EnqueueBurst ==
    /\ Len(queue) = nextId - 1
    /\ \A i \in 1..Len(queue) :
        /\ queue[i].id = i
        /\ queue[i].status = IF i <= maxConcurrent THEN "downloading" ELSE "pending"
    /\ activeDownloads = IF Len(queue) <= maxConcurrent THEN Len(queue) ELSE maxConcurrent

\* C5 witness: five jobs enqueued, three downloading and two pending
C5_Witness ==
    /\ last.op = "addToQueue"
    /\ Len(queue) = 5
    /\ Cardinality(DownloadingIdx(queue)) = 3
    /\ Cardinality(PendingIdx(queue)) = 2

\* C6: a completeItem call for a downloading job, made while every slot is in use and
\* jobs are pending, turns exactly one pending job to downloading, the first pending one
\* in queue order; and whatever call dispatches a job, no job ahead of it in the queue is
\* left pending.
C6_FifoDispatch ==
    [][/\ (/\ last'.op = "completeItem"
           /\ StatusOf(queue, last'.id) = "downloading"
           /\ activeDownloads = maxConcurrent
           /\ PendingIdx(queue) # {})
          => /\ Len(queue') = Len(queue)
             /\ PendingIdx(queue) \ PendingIdx(queue') =
                    {CHOOSE i \in PendingIdx(queue) : \A k \in PendingIdx(queue) : i <= k}
             /\ DownloadingIdx(queue') \ DownloadingIdx(queue) =
                    PendingIdx(queue) \ PendingIdx(queue')
       /\ last'.promoted # 0
          => /\ StatusOf(queue', last'.promoted) = "downloading"
             /\ \A k \in 1..(IndexOfId(queue', last'.promoted) - 1) :
                    queue'[k].status # "pending"]_vars

\* C6 witness: the completion of a downloading job has just promoted a job while a
\* later job stays pending
C6_Witness ==
    /\ last.op = "completeItem"
    /\ last.was = "downloading"
    /\ last.promoted # 0
    /\ activeDownloads = maxConcurrent
    /\ \E k \in PendingIdx(queue) : k > IndexOfId(queue, last.promoted)

\* C7: an updateProgress call for a job that is and stays downloading never lowers the
\* job's progress percent.
C7_ProgressNeverRegresses ==
    [][(/\ last'.op = "updateProgress"
        /\ StatusOf(queue, last'.id) = "downloading"
        /\ StatusOf(queue', last'.id) = "downloading")
       => ItemOf(queue', last'.id).progress >= ItemOf(queue, last'.id).progress]_vars

\* C8: no updateProgress or completeItem call changes the status of a job that is
\* completed or failed.
C8_TerminalAbsorbing ==
    [][(/\ last'.op \in {"updateProgress", "completeItem"}
        /\ StatusOf(queue, last'.id) \in Terminal
        /\ HasItem(queue', last'.id))
       => StatusOf(queue', last'.id) = StatusOf(queue, last'.id)]_vars

\* C9: once the last retry of a request has failed and the request has been answered
\* with the classified error, the job (if still queued) is failed and carries that error.
C9_FailureRecordedOnJob ==
    \A r \in Reqs :
        (pc[r] = "failed" /\ attempt[r] = maxRetries /\ child[r][maxRetries] = "closed"
            /\ resError[r] # "No files downloaded" /\ HasItem(queue, r))
        => /\ StatusOf(queue, r) = "failed"
           /\ ItemOf(queue, r).error = resError[r]

\* C10: once activeTasks.cancel has killed a job's child, execWithRetryFactory neither
\* waits for a backoff delay nor starts another attempt for that job.
C10_CancelEndsRetry ==
    \A r \in Reqs :
        cancelledAt[r] # 0 => (pc[r] # "backoff" /\ attempt[r] = cancelledAt[r])

\* C11: the ActiveTasksRegistry holds no handle for a job whose status is completed or
\* failed.
C11_NoHandleForTerminalJob ==
    \A id \in Reqs : StatusOf(queue, id) \in Terminal => tasks[id] = 0

\* the yt-dlp child of request r has been spawned and has not exited yet
Alive(r) == dl[r].child \in {"running", "killed"}

\* C12: a request refused as a duplicate in flight has started no yt-dlp child, and no two
\* yt-dlp children are alive at the same time for one download id.
C12_OneProcessPerFingerprint ==
    /\ \A r \in OptReqs : dl[r].error = DuplicateError => dl[r].child = "none"
    /\ \A r, q \in OptReqs : (r # q /\ Alive(r) /\ Alive(q)) => dl[r].id # dl[q].id

\* C13: two requests whose options differ (in url, in type, or in audio format and
\* quality) have different download ids.
C13_DistinctRequestsDistinctIds ==
    \A r, q \in OptReqs :
        (dl[r].pc # "idle" /\ dl[q].pc # "idle" /\ dl[r].opts # dl[q].opts)
            => dl[r].id # dl[q].id

\* C14: no download id is in activeDownloads while the cache holds for it an entry younger
\* than the TTL whose file exists.
C14_NotInFlightAndServable ==
    \A f \in svcActiveDownloads :
        ~(/\ f \in DOMAIN cache
          /\ now - cache[f].timestamp < CACHE_TTL
          /\ cache[f].path \in files)

\* C14 witness: a request found for its id an entry younger than the TTL whose file was
\* gone, deleted the entry and is in flight
C14_Witness ==
    \E r \in OptReqs :
        /\ dl[r].pc = "running"
        /\ dl[r].evicted
        /\ dl[r].cached # NoEntry
        /\ now - dl[r].cached.timestamp < CACHE_TTL
        /\ dl[r].id \in svcActiveDownloads
        /\ dl[r].id \notin DOMAIN cache

\* C15: a request whose id has a cache entry younger than the TTL goes for that entry, and
\* while the entry's file exists it gets the entry's path as its result without a yt-dlp
\* child; a request whose id has an entry of age TTL or more is not served from the cache.
C15_CacheRoundTrip ==
    [][\A r \in OptReqs :
        /\ (dl[r].pc = "idle" /\ dl'[r].pc # "idle" /\ dl'[r].id \in DOMAIN cache)
            => IF now - cache[dl'[r].id].timestamp < CACHE_TTL
               THEN /\ dl'[r].pc = "fileExists"
                    /\ dl'[r].cached = cache[dl'[r].id]
                    /\ dl'[r].child = "none"
               ELSE /\ dl'[r].pc \in {"running", "failed"}
                    /\ dl'[r].via = "none"
                    /\ dl'[r].id \notin DOMAIN cache'
        /\ (dl[r].pc = "fileExists" /\ dl'[r].pc # "fileExists" /\ dl[r].cached.path \in files)
            => dl'[r].pc = "stat"
        /\ (dl[r].pc = "stat" /\ dl'[r].pc # "stat" /\ dl[r].cached.path \in files)
            => /\ dl'[r].pc = "streaming"
               /\ dl'[r].via = "cache"
               /\ dl'[r].result = dl[r].cached.path
               /\ dl'[r].child = "none"]_vars

\* C15 witness: a request was served from the cache the file another request downloaded
C15_Witness ==
    \E r, q \in OptReqs :
        /\ r # q
        /\ dl[q].via = "download"
        /\ dl[r].via = "cache"
        /\ dl[r].result = PathOf(q)
        /\ dl[r].child = "none"

\* C16: a request that read a cache entry never fails with the error of that entry's
\* missing file.
C16_StaleEntryNeverAnError ==
    \A r \in OptReqs : dl[r].cached # NoEntry => dl[r].error # "ENOENT"

\* C17: the cache gets a new or changed entry for an id only in the step in which a
\* running download of that id succeeds, and the entry is that download's result; a step
\* in which a request fails (failed download, timeout, duplicate in flight) leaves the
\* cache as it was.
C17_CachePutOnlyOnSuccess ==
    [][/\ \A f \in DOMAIN cache' :
            (f \notin DOMAIN cache \/ cache'[f] # cache[f])
                => \E r \in OptReqs :
                    /\ dl[r].pc = "running"
                    /\ dl'[r].pc = "streaming"
                    /\ dl'[r].via = "download"
                    /\ dl[r].id = f
                    /\ cache'[f] = [path |-> dl'[r].result, timestamp |-> now]
       /\ \A r \in OptReqs :
            (dl[r].pc # "failed" /\ dl'[r].pc = "failed") => cache' = cache]_vars

\* C17 witness: one download succeeded and is cached, another timed out and is not
C17_Witness ==
    \E r, q \in OptReqs :
        /\ dl[r].via = "download"
        /\ dl[r].id \in DOMAIN cache
        /\ cache[dl[r].id].path = dl[r].result
        /\ dl[q].pc = "failed"
        /\ dl[q].error = "Download timeout"
        /\ dl[q].id \notin DOMAIN cache

\* C18: at the instant of a cleanupCache call the cache holds no entry that the cache
\* check of optimizedDownload takes for past TTL (age TTL or more).
C18_SweepMatchesLookup ==
    lastSweep = now => \A f \in DOMAIN cache : now - cache[f].timestamp < CACHE_TTL

\* the attempts of request r for which run() was invoked
Invoked(r) == {k \in Attempts : child[r][k] # "none"}
\* run() of request r has resolved: execWithRetryFactory returned its result
Resolved(r) == pc[r] \in {"streaming", "done"} \/ resError[r] = "No files downloaded"

\* C19: when run() fails on the first k attempts (k < maxRetries) and resolves on attempt
\* k+1, execWithRetryFactory has invoked it exactly k+1 times, no attempt follows the
\* success, and the delays it awaited are 2^i seconds after the i-th failure (2000 ms then
\* 4000 ms for k = 2).
C19_RetryThenSuccess ==
    \A r \in Reqs :
        Resolved(r) =>
            /\ Invoked(r) = 1..attempt[r]
            /\ child[r][attempt[r]] = "closed"
            /\ Len(delays[r]) = attempt[r] - 1
            /\ \A i \in 1..Len(delays[r]) : delays[r][i] = 2 ^ i * 1000
            /\ attempt[r] = 3 => delays[r] = <<2000, 4000>>
            /\ finalMsg[r] = NoMessage

\* C19 witness: two failures, then the third attempt succeeded
C19_Witness ==
    \E r \in Reqs : pc[r] = "streaming" /\ attempt[r] = 3 /\ delays[r] = <<2000, 4000>>

\* C20: when run() fails on every one of the maxRetries attempts, execWithRetryFactory has
\* invoked it exactly maxRetries times, awaited a delay after every failure but the last,
\* and thrown the error classified from the last message: timed out if it contains
\* 'timed out', else unavailable if it contains 'unavailable', else network if it mentions
\* http, else the generic failure.
C20_ExhaustedClassified ==
    \A r \in Reqs :
        finalMsg[r] # NoMessage =>
            /\ pc[r] = "failed"
            /\ attempt[r] = maxRetries
            /\ Invoked(r) = 1..maxRetries
            /\ Len(delays[r]) = maxRetries - 1
            /\ resError[r] =
                    CASE "timed out" \in finalMsg[r] -> "Download timed out"
                      [] "timed out" \notin finalMsg[r] /\ "unavailable" \in finalMsg[r] ->
                            "Video is unavailable"
                      [] finalMsg[r] = {"http"} -> "Network error"
                      [] finalMsg[r] = {} -> "Download failed"

\* C20 witness: the last message mentions both 'unavailable' and http
C20_Witness ==
    \E r \in Reqs :
        /\ pc[r] = "failed"
        /\ finalMsg[r] = {"unavailable", "http"}
        /\ resError[r] = "Video is unavailable"

\* C21: the step in which the timer of a pending yt-dlp run fires leaves the child
\* signalled to terminate and fails the run with a timeout: under execWithRetryFactory the
\* attempt is rejected with 'yt-dlp timed out' (a backoff follows, or on the final attempt
\* the request is answered 'Download timed out'), and optimizedDownload fails with
\* 'Download timeout'.
C21_TimeoutKillsAndSurfaces ==
    [][/\ \A r \in Reqs :
            (pc[r] = "running" /\ pc'[r] # "running" /\ child'[r][attempt[r]] # "closed")
                => /\ child'[r][attempt[r]] = "killed"
                   /\ IF attempt[r] = maxRetries
                      THEN /\ pc'[r] = "failed"
                           /\ finalMsg'[r] = TimedOutMessage
                           /\ resError'[r] = "Download timed out"
                      ELSE /\ pc'[r] = "backoff"
                           /\ resError'[r] = ""
       /\ \A r \in OptReqs :
            (dl[r].pc = "running" /\ dl'[r].pc # "running" /\ dl'[r].child # "closed")
                => /\ dl'[r].child = "killed"
                   /\ dl'[r].pc = "failed"
                   /\ dl'[r].error = "Download timeout"
                   /\ dl'[r].result = NoPath]_vars

\* C21 witness: the final attempt of a playlist request timed out and its killed child has
\* not exited yet, or a download of the service timed out likewise
C21_Witness ==
    \/ \E r \in Reqs :
        /\ pc[r] = "failed"
        /\ child[r][maxRetries] = "killed"
        /\ resError[r] = "Download timed out"
    \/ \E r \in OptReqs :
        /\ dl[r].child = "killed"
        /\ dl[r].error = "Download timeout"

\* C22: cancel(id) returns true exactly when the registry holds a handle for id, and
\* after it no handle is held for id and the handles of the other ids are as before; a
\* cancel of an id without handle returns false and leaves the registry unchanged, so the
\* second of two cancels of one id in a row returns false.
C22_CancelFoundAndIdempotent ==
    [][last'.op = "cancel"
       => /\ returned' = (tasks[last'.id] # 0)
          /\ tasks'[last'.id] = 0
          /\ \A id \in Reqs \ {last'.id} : tasks'[id] = tasks[id]
          /\ tasks[last'.id] = 0 => (returned' = FALSE /\ tasks' = tasks)
          /\ (last.op = "cancel" /\ last.id = last'.id) => returned' = FALSE]_vars

\* C22 witness: a cancel found the handle of one job while another job's handle stays
C22_Witness ==
    /\ last.op = "cancel"
    /\ returned = TRUE
    /\ tasks[last.id] = 0
    /\ \E id \in Reqs : tasks[id] # 0

\* C23: a removeItem call for a job in the queue, whatever its status, takes that job out
\* and leaves the other jobs in their order; a removeItem call for an id not in the queue
\* (already removed, or never handed out) leaves the job list and activeDownloads as they
\* were and emits no event.
C23_RemoveIdempotent ==
    [][last'.op = "removeItem"
       => /\ ~HasItem(queue', last'.id)
          /\ HasItem(queue, last'.id)
                => /\ queue' = RemoveAt(queue, IndexOfId(queue, last'.id))
                   /\ last'.was = ItemOf(queue, last'.id).status
          /\ ~HasItem(queue, last'.id)
                => /\ queue' = queue
                   /\ activeDownloads' = activeDownloads
                   /\ last'.emitted = <<>>]_vars

\* C23 witness: a removeItem call for a job removed before found nothing to do while
\* other jobs are queued
C23_Witness ==
    /\ last.op = "removeItem"
    /\ last.id < nextId
    /\ last.was = "absent"
    /\ last.emitted = <<>>
    /\ Len(queue) > 0

\* C24: a pauseItem call turns a downloading job to paused and changes nothing else; a
\* resumeItem call turns a paused job to pending and then, if a slot is free, the first
\* pending job of the queue to downloading; a pauseItem call for a job that is not
\* downloading and a resumeItem call for a job that is not paused, or for an id not in the
\* queue, leave the queue and activeDownloads as they were.
C24_PauseResumeTransitions ==
    [][/\ last'.op = "pauseItem"
          => IF StatusOf(queue, last'.id) = "downloading"
             THEN /\ queue' = [queue EXCEPT ![IndexOfId(queue, last'.id)].status = "paused"]
                  /\ activeDownloads' = activeDownloads
             ELSE /\ queue' = queue
                  /\ activeDownloads' = activeDownloads
       /\ last'.op = "resumeItem"
          => IF StatusOf(queue, last'.id) = "paused"
             THEN LET q1 == [queue EXCEPT ![IndexOfId(queue, last'.id)].status = "pending"]
                      first == CHOOSE i \in PendingIdx(q1) : \A k \in PendingIdx(q1) : i <= k
                  IN  IF activeDownloads < maxConcurrent
                      THEN /\ queue' = [q1 EXCEPT ![first].status = "downloading"]
                           /\ activeDownloads' = activeDownloads + 1
                           /\ last'.promoted = q1[first].id
                      ELSE /\ queue' = q1
                           /\ activeDownloads' = activeDownloads
                           /\ last'.promoted = 0
             ELSE /\ queue' = queue
                  /\ activeDownloads' = activeDownloads
                  /\ last'.promoted = 0]_vars

\* C24 witness: a paused job was resumed while every slot was taken and stays pending
C24_Witness ==
    /\ last.op = "resumeItem"
    /\ last.was = "paused"
    /\ last.promoted = 0
    /\ StatusOf(queue, last.id) = "pending"
    /\ activeDownloads = maxConcurrent

\* C25: the handling of an observer's removeItem message for a job whose yt-dlp child is
\* registered signals that child and drops its handle, and the job, if queued, stays in
\* the queue as failed with error 'Canceled by user', activeDownloads is decremented and
\* the first other pending job, if there is one, becomes downloading in the same step;
\* for a job without registered child the message takes the job out of the queue and
\* changes nothing else.
C25_RemoveMessageCancelsOrRemoves ==
    [][\A id \in Reqs :
        (last' # last /\ last'.id = id /\ last'.op \in {"completeItem", "removeItem"})
        => IF tasks[id] # 0
           THEN /\ child'[id][tasks[id]] = "killed"
                /\ tasks'[id] = 0
                /\ HasItem(queue, id)
                    => LET i == IndexOfId(queue, id)
                           P == PendingIdx(queue) \ {i}
                           first == CHOOSE k \in P : \A j \in P : k <= j
                       IN  /\ Len(queue') = Len(queue)
                           /\ queue'[i].id = id
                           /\ queue'[i].status = "failed"
                           /\ queue'[i].error = CanceledByUser
                           /\ IF P # {}
                              THEN /\ queue'[first].status = "downloading"
                                   /\ last'.promoted = queue[first].id
                                   /\ activeDownloads' = activeDownloads
                              ELSE activeDownloads' = activeDownloads - 1
           ELSE /\ ~HasItem(queue', id)
                /\ HasItem(queue, id) => queue' = RemoveAt(queue, IndexOfId(queue, id))
                /\ activeDownloads' = activeDownloads
                /\ child' = child
                /\ tasks' = tasks]_vars

\* C25 witness: the removeItem message for a downloading job with a running child left
\* the job failed as canceled, its child killed, and the pending job downloading
C25_Witness ==
    /\ last.op = "completeItem"
    /\ last.was = "downloading"
    /\ last.promoted # 0
    /\ cancelledAt[last.id] # 0
    /\ child[last.id][cancelledAt[last.id]] = "killed"
    /\ StatusOf(queue, last.id) = "failed"
    /\ ItemOf(queue, last.id).error = CanceledByUser
    /\ StatusOf(queue, last.promoted) = "downloading"

\* C26: the percents of the updates a request passed to onProgress never decrease from
\* one update to the next, and an update parsed from a progress line (stage fetching)
\* carries a percent greater than that of the update before it.
C26_EmittedPercentsMonotone ==
    \A r \in OptReqs : \A i \in 2..Len(dl[r].emitted) :
        /\ dl[r].emitted[i].percent >= dl[r].emitted[i - 1].percent
        /\ dl[r].emitted[i].stage = "fetching"
            => dl[r].emitted[i].percent > dl[r].emitted[i - 1].percent

\* C27: a request has passed the complete update (percent 100) to onProgress only if it
\* found its cache entry's file or its download succeeded, that update is the last one it
\* passed, and a request that failed has passed no update of percent 100 or stage complete.
C27_CompleteOnlyOnSuccess ==
    \A r \in OptReqs : \A i \in 1..Len(dl[r].emitted) :
        (dl[r].emitted[i].percent = 100 \/ dl[r].emitted[i].stage = "complete")
            => /\ dl[r].emitted[i] = Complete
               /\ i = Len(dl[r].emitted)
               /\ dl[r].pc # "failed"
               /\ dl[r].via = "download" \/ dl[r].cached.path # NoPath

\* C28: in every state reached by addToQueue, removeFromQueue, reorderQueue, playNext,
\* playPrevious, playItem, setPlayingStatus and clearQueue calls, currentIndex is at least
\* -1 and at most length - 1, and it is -1 exactly when the queue is empty.
C28_CursorInRange ==
    /\ currentIndex >= Whole(-1)
    /\ currentIndex <= Whole(Len(musicQueue) - 1)
    /\ currentIndex = Whole(-1) <=> Len(musicQueue) = 0

\* C29: in every reachable state with a non-empty queue exactly one item has
\* isCurrentlyPlaying set, and it is the item at currentIndex.
C29_OneCurrentAtCursor ==
    Len(musicQueue) > 0
        => {Whole(i - 1) : i \in {k \in 1..Len(musicQueue) : musicQueue[k].isCurrentlyPlaying}}
                = {currentIndex}

\* the ids of the items of a playback queue, in order
IdsOf(q) == [i \in 1..Len(q) |-> q[i].id]

\* C30: a removeFromQueue call for an item of the queue takes that item out and leaves the
\* others in order; if the item was before the cursor, currentIndex decreases by one, if
\* it was after, currentIndex is unchanged, and in both cases the item at the cursor is
\* the same as before; if it was the item at the cursor, currentIndex is unchanged when a
\* later item exists (the cursor is then on what was the next item), otherwise it is the
\* index of the new last item, or -1 when the queue has become empty.
C30_RemoveRepairsCursor ==
    [][(mlast'.op = "removeFromQueue" /\ HasItem(musicQueue, mlast'.id))
       => LET i == IndexOfId(musicQueue, mlast'.id)
              index == Whole(i - 1)
              len == Len(musicQueue)
          IN  /\ returned' = TRUE
              /\ IdsOf(musicQueue') = IdsOf(RemoveAt(musicQueue, i))
              /\ index < currentIndex
                    => /\ currentIndex' = currentIndex - Whole(1)
                       /\ Holds(musicQueue, currentIndex)
                            => musicQueue'[Pos(currentIndex')].id
                                    = musicQueue[Pos(currentIndex)].id
              /\ index > currentIndex
                    => /\ currentIndex' = currentIndex
                       /\ Holds(musicQueue, currentIndex)
                            => musicQueue'[Pos(currentIndex')].id
                                    = musicQueue[Pos(currentIndex)].id
              /\ index = currentIndex
                    => IF i < len
                       THEN /\ currentIndex' = currentIndex
                            /\ musicQueue'[Pos(currentIndex')].id = musicQueue[i + 1].id
                            /\ musicQueue'[Pos(currentIndex')].isCurrentlyPlaying
                       ELSE IF len = 1
                       THEN currentIndex' = Whole(-1)
                       ELSE /\ currentIndex' = Whole(Len(musicQueue') - 1)
                            /\ musicQueue'[Len(musicQueue')].isCurrentlyPlaying]_vars

\* C30 witness: from the queue of items 1, 2, 3 with the cursor on item 2, the removal of
\* item 1 left items 2, 3 with the cursor at index 0, on item 2
C30_Witness ==
    /\ mlast = [op |-> "removeFromQueue", id |-> 1]
    /\ returned = TRUE
    /\ IdsOf(musicQueue) = <<2, 3>>
    /\ currentIndex = Whole(0)
    /\ musicQueue[1].isCurrentlyPlaying
    /\ ~musicQueue[2].isCurrentlyPlaying

\* C31: a reorderQueue call whose fromIndex and toIndex are both positions of the queue
\* returns true, puts the item that was at fromIndex at toIndex, keeps the other items in
\* their order and every item's mark, and leaves isPlaying alone; currentIndex becomes
\* toIndex when it was fromIndex, decreases by one when fromIndex < currentIndex <= toIndex,
\* increases by one when toIndex <= currentIndex < fromIndex, and is otherwise unchanged,
\* so that a cursor that was on an item is on the same item afterwards.
C31_ReorderKeepsLogicalItem ==
    [][mlast'.op = "reorderQueue"
       => \A f, t \in {Whole(i - 1) : i \in 1..Len(musicQueue)} :
            LET r == reorderQueue(MQ, f, t)
            IN  (/\ musicQueue' = r.queue
                 /\ currentIndex' = r.currentIndex
                 /\ returned' = r.ret)
                => /\ returned' = TRUE
                   /\ Len(musicQueue') = Len(musicQueue)
                   /\ musicQueue'[Pos(t)] = musicQueue[Pos(f)]
                   /\ RemoveAt(musicQueue', Pos(t)) = RemoveAt(musicQueue, Pos(f))
                   /\ isPlaying' = isPlaying
                   /\ currentIndex' = IF currentIndex = f THEN t
                                      ELSE IF f < currentIndex /\ currentIndex <= t
                                      THEN currentIndex - Whole(1)
                                      ELSE IF t <= currentIndex /\ currentIndex < f
                                      THEN currentIndex + Whole(1)
                                      ELSE currentIndex
                   /\ Holds(musicQueue, currentIndex)
                        => /\ Holds(musicQueue', currentIndex')
                           /\ musicQueue'[Pos(currentIndex')].id
                                = musicQueue[Pos(currentIndex)].id]_vars

\* C31 witness: items 1, 2, 3 with the cursor on item 3 at index 2; the move of item 1
\* from index 0 to index 2 crossed the cursor, which is now at index 1, still on item 3
C31_Witness ==
    /\ mlast.op = "reorderQueue"
    /\ returned = TRUE
    /\ IdsOf(musicQueue) = <<2, 3, 1>>
    /\ currentIndex = Whole(1)
    /\ musicQueue[2].isCurrentlyPlaying
    /\ ~musicQueue[1].isCurrentlyPlaying
    /\ ~musicQueue[3].isCurrentlyPlaying

\* C32: on a non-empty queue a playNext call sets currentIndex to (currentIndex + 1) mod
\* length and a playPrevious call to (currentIndex - 1) mod length, and each returns the
\* item then at currentIndex; on an empty queue both return null.
C32_NextPreviousWrap ==
    [][mlast'.op \in {"playNext", "playPrevious"}
       => IF Len(musicQueue) = 0
          THEN returned' = Null
          ELSE LET len == Whole(Len(musicQueue))
                   step == IF mlast'.op = "playNext" THEN Whole(1) ELSE Whole(-1)
               IN  /\ currentIndex' = (currentIndex + step) % len
                   /\ Holds(musicQueue', currentIndex')
                   /\ returned' = musicQueue'[Pos(currentIndex')].id]_vars

\* C33: in every reachable state of the playback queue a call that is rejected gives
\* false or null and the state it was made in: removeFromQueue and playItem with an id
\* that is not in the queue, reorderQueue with fromIndex or toIndex below 0 or not below
\* the length, playItemAtIndex with such an index, and playNext and playPrevious on the
\* empty queue.
C33_RejectedLeavesState ==
    LET len == Whole(Len(musicQueue))
        Out(x) == x < 0 \/ x >= len
    IN  /\ \A id \in 1..MaxTracks :
              ~HasItem(musicQueue, id)
                => /\ removeFromQueue(MQ, id) = Same(MQ, FALSE)
                   /\ playItem(MQ, id) = Same(MQ, Null)
        /\ \A f, t \in Numbers(MaxTracks) :
              (Out(f) \/ Out(t)) => reorderQueue(MQ, f, t) = Same(MQ, FALSE)
        /\ \A x \in Numbers(MaxTracks) :
              Out(x) => playItemAtIndex(MQ, x) = Same(MQ, Null)
        /\ Len(musicQueue) = 0
              => /\ playNext(MQ) = Same(MQ, Null)
                 /\ playPrevious(MQ) = Same(MQ, Null)

\* C33 witness: a removeFromQueue call for an id that is not among the two items of the
\* queue has returned false, with the cursor on the second item and playback on
C33_Witness ==
    /\ mlast.op = "removeFromQueue"
    /\ returned = FALSE
    /\ ~HasItem(musicQueue, mlast.id)
    /\ Len(musicQueue) = 2
    /\ currentIndex = Whole(1)
    /\ musicQueue[2].isCurrentlyPlaying
    /\ isPlaying

\* C34: a setPlayingStatus(b) call makes isPlaying equal to b and leaves the items, their
\* order, their marks and currentIndex as they were.
C34_SetPlayingOnlyIsPlaying ==
    [][mlast'.op = "setPlayingStatus"
       => /\ isPlaying' = (mlast'.id = 1)
          /\ musicQueue' = musicQueue
          /\ currentIndex' = currentIndex]_vars

\* C34 witness: setPlayingStatus(false) was called on a queue of two items that was
\* playing its second item: playback is off, the cursor and the mark are still on the
\* second item
C34_Witness ==
    /\ mlast = [op |-> "setPlayingStatus", id |-> 0]
    /\ ~isPlaying
    /\ Len(musicQueue) = 2
    /\ currentIndex = Whole(1)
    /\ musicQueue[2].isCurrentlyPlaying
    /\ ~musicQueue[1].isCurrentlyPlaying

\* C35: every step that changes the playback queue state (the items, their marks,
\* currentIndex or isPlaying) emits a snapshot equal to the state after the step, and
\* every snapshot a step emits is sent to each observer whose socket is open, whichever
\* observer it is.
C35_ChangePublishedToAllOpen ==
    [][/\ <<musicQueue', currentIndex', isPlaying'>> # <<musicQueue, currentIndex, isPlaying>>
          => published' = <<[items |-> musicQueue', currentIndex |-> currentIndex',
                             isPlaying |-> isPlaying', totalItems |-> Len(musicQueue')]>>
       /\ \A w \in Observers : sockets[w] = "open" => received'[w] = published']_vars

\* C36: in every reachable state at most maxConcurrent jobs of the download queue have
\* the status downloading.
C36_DownloadingAtMostMax == Cardinality(DownloadingIdx(queue)) <= maxConcurrent

\* C37: in every state a QueueManager call leaves, if some job is pending then
\* activeDownloads equals maxConcurrent.
C37_WorkConserving == PendingIdx(queue) # {} => activeDownloads = maxConcurrent

\* C37 witness: the completion of a downloading job, made with two jobs pending, has
\* dispatched one of them; the other is still pending and every slot is in use
C37_Witness ==
    /\ last.op = "completeItem"
    /\ last.was = "downloading"
    /\ last.promoted # 0
    /\ StatusOf(queue, last.promoted) = "downloading"
    /\ PendingIdx(queue) # {}
    /\ activeDownloads = maxConcurrent

\* C38: when the end of every job's external work is reported with completeItem, no job
\* stays pending forever, whatever pauseItem, resumeItem and removeItem calls are made
\* meanwhile. Stated on the states where nothing more will be reported: once the work of
\* every dispatched job has ended and been reported, no job is pending (a job pending
\* there stays pending, since only completeItem frees a slot).
C38_NoPendingOnceAllReported ==
    (\A id \in Reqs : dispatched[id] => pc[id] = "done") => PendingIdx(queue) = {}

\* C39: in every reachable state the download ids in activeDownloads are the ids of the
\* requests that await executeOptimizedDownload, one request for each id: an id is added
\* when a request starts its download, taken out when that request's download has
\* succeeded, failed or timed out, and left in when another request for it is refused as a
\* duplicate.
C39_InFlightIffOneRequestRuns ==
    /\ svcActiveDownloads = {dl[r].id : r \in {q \in OptReqs : dl[q].pc = "running"}}
    /\ \A r, q \in OptReqs :
          (r # q /\ dl[r].pc = "running" /\ dl[q].pc = "running") => dl[r].id # dl[q].id

\* C39 witness: a request was refused as a duplicate while the request that holds its id
\* still awaits its download, and the id is still in activeDownloads
C39_Witness ==
    \E r, q \in OptReqs :
        /\ dl[r].error = DuplicateError
        /\ dl[q].pc = "running"
        /\ dl[q].id = dl[r].id
        /\ dl[q].id \in svcActiveDownloads

\* C40: in every reachable state, the registry maps the id of a job to each of the job's
\* yt-dlp children that is running: the close, error and timeout handling of an earlier
\* attempt has neither taken out nor replaced the handle of a later attempt that runs.
C40_RunningChildRegistered ==
    \A r \in Reqs, k \in Attempts : child[r][k] = "running" => tasks[r] = k

====
